---- MODULE Spec2Model ----
(***************************************************************************)
(* libpack: a git-backed hierarchical key/value database.                  *)
(*                                                                         *)
(* The module models the object store and the named reference of one bare  *)
(* repository, the commit protocol (CommitToRef / commitToRef), the        *)
(* stateful database handle of db.go (Set, Delete, Update, Commit) and the *)
(* stateless database of the Repository-based code (getTree, setTree,      *)
(* DB.pipeline, the Query and Commit pipeline steps).                      *)
(*                                                                         *)
(* Trees are maps from top-level keys to blob values; a commit is a record *)
(* of a tree and a sequence of parent commit ids; commit ids are positions *)
(* in the object store.  The temporary commit of a merge, an object that   *)
(* no reference and no other commit points at, is kept in the frame of the *)
(* call that created it.                                                   *)
(*                                                                         *)
(* Spec is the stateful handle of db.go over CommitToRef; SpecTx is the    *)
(* stateless database (pipeline runs over getTree / setTree, DB.Set and    *)
(* DB.Get over DB.pipeline) over commitToRef.                              *)
(*                                                                         *)
(* The tree algebra (treeAdd, treeDel, TreeGet, TreeList, TreeScope) works *)
(* on nested trees: a tree maps each entry name to a blob, a sub-tree or   *)
(* nothing, and keys are slash paths cleaned as path.Clean cleans them.    *)
(* SpecTree is the uncommitted tree of one db.go handle under Set, Mkdir,  *)
(* Delete and the Add step of the pipeline; SpecScope adds the views that  *)
(* DB.Scope returns and the calls made through them.                       *)
(*                                                                         *)
(* SpecLock is two goroutines in Set and Mkdir on one handle; SpecPull is  *)
(* Spec with DB.Pull; SpecRead is Get and List on one tree; SpecPipe is a  *)
(* pipeline run with its pass-through steps; SpecCat is the building of    *)
(* pipelines from pipelines (concat, PushBackPipeline); SpecStore is the   *)
(* object database under the calls of one db.go handle.                    *)
(*                                                                         *)
(* SpecKey is the calls on a tree with keys written as strings of          *)
(* characters; SpecAnn is MkAnnotation followed by ParseAnnotation and     *)
(* SpecParse is ParseAnnotation of any key; SpecTar is SetTar followed by  *)
(* GetTar; SpecAddDB is goroutines in DB.AddDB on handles with locks of    *)
(* their own; SpecFair is Spec with goroutines that keep running inside    *)
(* the retry loop of CommitToRef.                                          *)
(***************************************************************************)
EXTENDS Naturals, Integers, Sequences, FiniteSets, TLC

\* ------------------------------------------------------------------------
\* Bounds of the model
\* ------------------------------------------------------------------------
MaxCommits == 3
MaxRefusals == 3

Handles == {"h1", "h2"}
Keys == {"foo", "bar"}
\* the value each client writes (db1 writes "A", db2 writes "B")
ValOf(h) == IF h = "h1" THEN "A" ELSE "B"

\* ------------------------------------------------------------------------
\* Values
\* ------------------------------------------------------------------------
NoVal == "absent"     \* no entry under a key
NoTree == [nil |-> TRUE]   \* a nil *git.Tree
Nil == 0              \* a nil *git.Commit, an absent reference

VARIABLES
    commits,    \* object store: the commits the reference has pointed at,
                \* [tree, parents], a commit id is a position
    ref,        \* the reference: Nil when it does not exist, else a commit id
    hcommit,    \* DB.commit of each stateful handle
    htree,      \* DB.tree of each stateful handle
    pc,         \* position of each handle's current call
    caller,     \* which operation entered commitToRef
    ctree,      \* commitToRef argument: tree
    cparent,    \* commitToRef argument: parent
    needMerge,  \* commitToRef local
    tmpCommit,  \* commitToRef local
    tip,        \* commitToRef local
    ret,        \* value returned by commitToRef: [commit, err]
    val,        \* Pipeline.Run local: the tree passed from step to step
    result,     \* outcome of the last finished call on the stateless database
    wrote,      \* keys set by the current (or last finished) pipeline run
    touched,    \* history: keys each stateful handle has set or deleted
    refusals,   \* history: refused reference updates in the current call
    dbtree,     \* DB.tree of the root handle of the tree algebra
    views,      \* the handles made by DB.Scope: [scope, tree, parent]
    last,       \* history: the last call on a handle, its input and outcome
    nops,       \* history: number of calls made on the handles
    calls,      \* the call each goroutine is in, or has made last, on handle 0
    lock,       \* DB.l of handle 0: "free" or the goroutine that holds it
    pipes,      \* the pipelines built: the steps on the heap, the lists of
                \* steps, and the last concatenation made
    store,      \* the object database as one handle of db.go uses it: the
                \* trees and commits written, the reference, db.tree and
                \* db.commit as ids (0: none)
    readHead,   \* history: the head getTree found when the run of each
                \* client of the stateless database read its input
    rw          \* the handles DB.AddDB works on: DB.l of each (its readers
                \* and its writer), whether DB.tree is set, the position
                \* of each goroutine in its call, the number of calls

vars == <<commits, ref, hcommit, htree, pc, caller, ctree, cparent, needMerge,
          tmpCommit, tip, ret, val, result, wrote, touched, refusals,
          dbtree, views, last, nops, calls, lock, pipes, store, readHead, rw>>

repoVars == <<commits, ref>>
handleVars == <<hcommit, htree, touched>>
runVars == <<val, result, wrote>>
frameVars == <<ctree, cparent, needMerge, tmpCommit, tip>>
treeVars == <<dbtree, views, last, nops>>
extVars == <<calls, lock, pipes, store, readHead, rw>>
protoVars == <<commits, ref, hcommit, htree, pc, caller, ctree, cparent,
               needMerge, tmpCommit, tip, ret, val, result, wrote, touched,
               refusals>>

\* ------------------------------------------------------------------------
\* Trees
\* ------------------------------------------------------------------------
emptyTree == [k \in Keys |-> NoVal]

\* treeAdd of a blob under a one-component key; a nil base is an empty builder
treeAdd(tree, key, value) ==
    LET base == IF tree = NoTree THEN emptyTree ELSE tree
    IN  [base EXCEPT ![key] = value]

\* treeDel of a one-component key; builder.Remove fails when the entry is absent
treeDelOk(tree, key) == tree # NoTree /\ tree[key] # NoVal
treeDel(tree, key) == [tree EXCEPT ![key] = NoVal]

\* ------------------------------------------------------------------------
\* Object store and reference
\* ------------------------------------------------------------------------
NewCommit(tree, parents) == [tree |-> tree, parents |-> parents]

\* no commit object (a nil *git.Commit held in a local)
NoCommit == [tree |-> NoTree, parents |-> <<>>]

RECURSIVE Ancestors(_)
Ancestors(c) ==
    IF c = Nil THEN {}
    ELSE {c} \cup UNION {Ancestors(commits[c].parents[i]) :
                            i \in 1..Len(commits[c].parents)}

lookupTip == ref

\* parents handed to CreateCommit by mkCommit
mkCommitParents(parent, extraParents) ==
    (IF parent # Nil THEN <<parent>> ELSE <<>>) \o extraParents

\* a CreateCommit that moves the reference without looking at its value
CreateCommitErr_Unchecked(parents) == "none"

\* CreateCommit with a reference to update (git_commit_create): when the
\* reference exists its current target must be the first parent of the new
\* commit; a commit without parents, or with another first parent, is
\* refused with class 11 (object), code -15 (modified), the error
\* isGitConcurrencyErr tests for.  When the reference does not exist it is
\* created.  The test and the update are one atomic step.
CreateCommitErr(parents) ==
    IF ref # Nil /\ (parents = <<>> \/ parents[1] # ref)
    THEN "conflict" ELSE "none"

\* a test that recognises no error as a concurrency error
isGitConcurrencyErr_Never(err) == FALSE

isGitConcurrencyErr(err) == err = "conflict"

\* MergeCommits: the merge base of the temporary commit (an object nothing
\* else refers to) and the tip
MergeBase(tmp, t) ==
    LET mine == UNION {Ancestors(tmp.parents[i]) : i \in 1..Len(tmp.parents)}
        common == mine \cap Ancestors(t)
        best == {c \in common : \A d \in common \ {c} : c \notin Ancestors(d)}
    IN  IF best = {} THEN Nil ELSE CHOOSE c \in best : TRUE

BaseTree(tmp, t) ==
    IF MergeBase(tmp, t) = Nil THEN emptyTree ELSE commits[MergeBase(tmp, t)].tree

\* three-way merge at file granularity
Conflicts(base, ours, theirs) ==
    {k \in Keys : ours[k] # theirs[k] /\ ours[k] # base[k] /\ theirs[k] # base[k]}

\* the index after MergeCommits and after the conflict loop has re-added
\* the "our" side of each conflict that has one
MergedTree(base, ours, theirs) ==
    [k \in Keys |->
        IF ours[k] = theirs[k] THEN ours[k]
        ELSE IF ours[k] = base[k] THEN theirs[k]
        ELSE ours[k]]

\* conflicts left in the index: our side is absent (c.Our == nil)
Unresolved(base, ours, theirs) ==
    {k \in Conflicts(base, ours, theirs) : ours[k] = NoVal}

\* ------------------------------------------------------------------------
\* The tree algebra: nested trees and paths
\* ------------------------------------------------------------------------
MaxOps == 2
MaxViews == 2

Names == {"a", "b"}
\* the names in the order in which EntryByIndex gives the entries
NameSeq == <<"a", "b">>
Vals == {"x", ""}

\* a tree maps every name to its entry: none, a blob or a sub-tree; equal
\* trees have equal ids
Absent == [absent |-> TRUE]
Blob(v) == [blob |-> v]
Sub(t) == [tree |-> t]
IsAbsent(e) == "absent" \in DOMAIN e
IsBlob(e) == "blob" \in DOMAIN e
IsSub(e) == "tree" \in DOMAIN e
emptyGitTree == [n \in Names |-> Absent]

\* a path string: whether it starts with a slash, and its components
\* ("" and "." have no component and no slash, "/" has the slash only)
Path(abs, segs) == [abs |-> abs, segs |-> segs]
IsEmptyPath(p) == ~p.abs /\ p.segs = <<>>

\* path.Clean: a ".." removes the component before it; at the root it is
\* dropped, at the start of a relative path it stays
RECURSIVE CleanSegs(_, _, _)
CleanSegs(abs, done, rest) ==
    IF rest = <<>> THEN done
    ELSE IF Head(rest) # ".."
    THEN CleanSegs(abs, Append(done, Head(rest)), Tail(rest))
    ELSE IF done # <<>> /\ done[Len(done)] # ".."
    THEN CleanSegs(abs, SubSeq(done, 1, Len(done) - 1), Tail(rest))
    ELSE IF abs THEN CleanSegs(abs, done, Tail(rest))
    ELSE CleanSegs(abs, Append(done, ".."), Tail(rest))

Clean(p) == Path(p.abs, CleanSegs(p.abs, <<>>, p.segs))

\* path.Join of two elements: empty elements are ignored, the rest is
\* joined with slashes and cleaned
Join(p, q) ==
    IF IsEmptyPath(p) THEN (IF IsEmptyPath(q) THEN q ELSE Clean(q))
    ELSE Clean(Path(p.abs, p.segs \o q.segs))

\* TreePath: the cleaned path without its leading slash; "/" and "." are
\* the root, the path without components
TreePath(p) == Clean(p).segs

\* Tree.EntryByPath: no entry when a component is missing, is no name of an
\* entry, or when a component before the last is not a sub-tree
RECURSIVE EntryByPath(_, _)
EntryByPath(tree, segs) ==
    IF segs = <<>> \/ Head(segs) \notin Names THEN Absent
    ELSE IF Len(segs) = 1 THEN tree[Head(segs)]
    ELSE IF IsSub(tree[Head(segs)])
    THEN EntryByPath(tree[Head(segs)].tree, Tail(segs))
    ELSE Absent

\* TreeScope (treeScope): the error of the call, "none" when it succeeds
TreeScopeErr(tree, segs) ==
    IF tree = NoTree THEN "undefined"
    ELSE IF segs = <<>> THEN "none"
    ELSE IF IsAbsent(EntryByPath(tree, segs)) THEN "notfound"
    ELSE IF ~IsSub(EntryByPath(tree, segs)) THEN "nottree"
    ELSE "none"

\* TreeScope (treeScope): the sub-tree, nil when the call fails
TreeScope(tree, segs) ==
    IF TreeScopeErr(tree, segs) # "none" THEN NoTree
    ELSE IF segs = <<>> THEN tree
    ELSE EntryByPath(tree, segs).tree

\* a TreeGet that reads a sub-tree as an empty value
TreeGetPath_SubAsValue(tree, segs) ==
    IF tree = NoTree THEN [err |-> "notexist", val |-> ""]
    ELSE IF IsAbsent(EntryByPath(tree, segs)) THEN [err |-> "notfound", val |-> ""]
    ELSE IF ~IsBlob(EntryByPath(tree, segs)) THEN [err |-> "none", val |-> ""]
    ELSE [err |-> "none", val |-> EntryByPath(tree, segs).blob]

\* TreeGet
TreeGetPath(tree, segs) ==
    IF tree = NoTree THEN [err |-> "notexist", val |-> ""]
    ELSE IF IsAbsent(EntryByPath(tree, segs)) THEN [err |-> "notfound", val |-> ""]
    ELSE IF ~IsBlob(EntryByPath(tree, segs)) THEN [err |-> "notblob", val |-> ""]
    ELSE [err |-> "none", val |-> EntryByPath(tree, segs).blob]

\* the names of the entries of a tree, in order
EntryNames(tree) ==
    LET present(n) == ~IsAbsent(tree[n]) IN SelectSeq(NameSeq, present)

\* TreeList: a nil tree lists as empty
TreeListPath(tree, segs) ==
    IF tree = NoTree THEN [err |-> "none", names |-> <<>>]
    ELSE IF TreeScopeErr(tree, segs) # "none"
    THEN [err |-> TreeScopeErr(tree, segs), names |-> <<>>]
    ELSE [err |-> "none", names |-> EntryNames(TreeScope(tree, segs))]

\* a builder that takes no name
validEntryName_None(leaf) == FALSE

\* TreeBuilder.Insert and Remove (git_treebuilder_insert): "", "." and ".."
\* are no names of entries
validEntryName(leaf) == leaf \in Names

AddOut(t) == [tree |-> t, err |-> "none", freed |-> FALSE]
AddErr(e) == [tree |-> NoTree, err |-> e, freed |-> FALSE]

\* the sub-tree treeAdd puts at leaf when merge is ignored
newSubTree_Shadow(merge, oldSubTree) == FALSE

\* treeAdd: the existing sub-tree is merged into only when merge is set and
\* the sub-tree exists
newSubTree(merge, oldSubTree) == merge /\ oldSubTree # NoTree

\* a treeAdd that never takes the key for the root
isRootKey_Never(segs) == FALSE

\* treeAdd: key == "/"
isRootKey(segs) == segs = <<>>

\* treeAdd(repo, tree, key, valueId, merge) with key already a TreePath and
\* valueId the id of a blob or of a tree.  The result has the new tree, the
\* error, and whether the handle returned has been released already: with
\* key "/" the merged tree is returned as it is, and when the value has no
\* entry that is oldSubTree, which the deferred Free releases.
RECURSIVE treeAddPath(_, _, _, _)
RECURSIVE mergeEntries(_, _, _, _)
mergeEntries(subTree, oTree, i, merge) ==
    IF i > Len(NameSeq) THEN AddOut(subTree)
    ELSE IF IsAbsent(oTree[NameSeq[i]])
    THEN mergeEntries(subTree, oTree, i + 1, merge)
    ELSE LET r == treeAddPath(subTree, <<NameSeq[i]>>, oTree[NameSeq[i]], merge)
         IN  IF r.err # "none" THEN r
             ELSE mergeEntries(r.tree, oTree, i + 1, merge)

treeAddPath(tree, segs, value, merge) ==
    LET n == Len(segs)
        leaf == IF n = 0 THEN "" ELSE segs[n]
        base == IF n = 0 THEN <<>> ELSE SubSeq(segs, 1, n - 1)
        builder == IF tree = NoTree THEN emptyGitTree ELSE tree
    IN  IF n <= 1
        THEN IF IsBlob(value)
             THEN IF validEntryName(leaf)
                  THEN AddOut([builder EXCEPT ![leaf] = value])
                  ELSE AddErr("insert")
             ELSE LET oTree == value.tree
                      oldSubTree == IF tree # NoTree
                                    THEN TreeScope(tree, IF n = 0 THEN <<>> ELSE <<leaf>>)
                                    ELSE NoTree
                      subTree == IF newSubTree(merge, oldSubTree)
                                 THEN mergeEntries(oldSubTree, oTree, 1, merge)
                                 ELSE AddOut(oTree)
                  IN  IF subTree.err # "none" THEN subTree
                      ELSE IF isRootKey(segs)
                      THEN [subTree EXCEPT !.freed =
                                newSubTree(merge, oldSubTree) /\ oTree = emptyGitTree]
                      ELSE IF validEntryName(leaf)
                      THEN AddOut([builder EXCEPT ![leaf] = Sub(subTree.tree)])
                      ELSE AddErr("insert")
        ELSE LET subtree == treeAddPath(NoTree, <<leaf>>, value, merge)
             IN  IF subtree.err # "none" THEN subtree
                 ELSE treeAddPath(tree, base, Sub(subtree.tree), merge)

\* treeDel: the entry leaf is removed from the sub-tree at base, and the
\* tree written by the builder is returned
treeDelPath(tree, segs) ==
    LET n == Len(segs)
        leaf == IF n = 0 THEN "" ELSE segs[n]
        base == IF n = 0 THEN <<>> ELSE SubSeq(segs, 1, n - 1)
        scoped == TreeScope(tree, base)
    IN  IF tree = NoTree THEN [tree |-> NoTree, err |-> "panic"]
        ELSE IF scoped = NoTree
        THEN [tree |-> NoTree, err |-> TreeScopeErr(tree, base)]
        ELSE IF ~validEntryName(leaf) \/ IsAbsent(scoped[leaf])
        THEN [tree |-> NoTree, err |-> "remove"]
        ELSE [tree |-> [scoped EXCEPT ![leaf] = Absent], err |-> "none"]

\* a store that writes every value the way the empty value is written
CreateBlob_FromStdin(v) == Blob("")

\* CreateBlobFromBuffer, and for the empty value "git hash-object -w
\* --stdin" without input: the blob of the value
CreateBlob(v) == Blob(v)

\* ------------------------------------------------------------------------
\* The handles of the tree algebra: handle 0 is the database opened on the
\* repository, handle i > 0 is views[i], made by DB.Scope
\* ------------------------------------------------------------------------
NoRes == [val |-> "", names |-> <<>>, tree |-> NoTree, out |-> <<>>]
NoOp == [op |-> "none", h |-> 0, key |-> Path(FALSE, <<>>), value |-> Absent,
         merge |-> FALSE, in |-> NoTree, err |-> "none", res |-> NoRes]

\* the goroutines that share handle 0, and a goroutine that is in no call
Goroutines == {"g1", "g2"}
NoCall == [op |-> "none", key |-> Path(FALSE, <<>>), value |-> Absent,
           base |-> NoTree, done |-> TRUE, err |-> "none"]

\* no goroutine is in a call and the lock of the handle is free
\* no pipeline built yet; the two list pipelines are fresh (NewPipeline)
NoCat == [kind |-> "none"]
NoPipes == [nodes |-> <<>>, lists |-> <<<<>>, <<>>>>, cat |-> NoCat]

\* the handles of DB.AddDB: two handles of their own and v == a.Scope(..),
\* a view whose parent is a; no lock is held, no tree is set, no
\* goroutine is in a call
AddHandles == {"a", "b", "v"}
NoRW ==
    [l |-> [h \in AddHandles |-> [readers |-> {}, writer |-> "none"]],
     tree |-> [h \in AddHandles |-> FALSE],
     at |-> [g \in Goroutines |-> [pc |-> "idle", dst |-> "a", src |-> "a"]],
     n |-> 0]

NoStore == [objs |-> <<>>, tree |-> 0, commits |-> <<>>, ref |-> 0, commit |-> 0]

IdleExt ==
    /\ calls = [g \in Goroutines |-> NoCall]
    /\ lock = "free"
    /\ pipes = NoPipes
    /\ store = NoStore
    /\ readHead = [h \in Handles |-> Nil]
    /\ rw = NoRW

IdleTree ==
    /\ dbtree = NoTree
    /\ views = <<>>
    /\ last = NoOp
    /\ nops = 0
    /\ IdleExt

\* ------------------------------------------------------------------------
\* Initial state: an initialised bare repository without the reference;
\* every handle has run Update (commit = nil, tree = nil).
\* ------------------------------------------------------------------------
NoRet == [commit |-> Nil, err |-> "none"]

\* the commit protocol at rest
IdleProto ==
    /\ commits = <<>>
    /\ ref = Nil
    /\ hcommit = [h \in Handles |-> Nil]
    /\ htree = [h \in Handles |-> NoTree]
    /\ pc = [h \in Handles |-> "idle"]
    /\ caller = [h \in Handles |-> "none"]
    /\ ctree = [h \in Handles |-> NoTree]
    /\ cparent = [h \in Handles |-> Nil]
    /\ needMerge = [h \in Handles |-> FALSE]
    /\ tmpCommit = [h \in Handles |-> NoCommit]
    /\ tip = [h \in Handles |-> Nil]
    /\ ret = [h \in Handles |-> NoRet]
    /\ val = [h \in Handles |-> NoTree]
    /\ result = [h \in Handles |-> "none"]
    /\ wrote = [h \in Handles |-> {}]
    /\ touched = [h \in Handles |-> {}]
    /\ refusals = [h \in Handles |-> 0]

Init == IdleProto /\ IdleTree

\* ------------------------------------------------------------------------
\* commitToRef (CommitToRef in db.go): the retry loop, one action per
\* access to the repository
\* ------------------------------------------------------------------------
InFlight == {p \in Handles : pc[p] \in {"loop", "merge"}}

\* entry: the locals of a fresh call
EnterCommitToRef(p, tree, parent, who) ==
    /\ Len(commits) + Cardinality(InFlight) < MaxCommits
    /\ pc' = [pc EXCEPT ![p] = "loop"]
    /\ caller' = [caller EXCEPT ![p] = who]
    /\ ctree' = [ctree EXCEPT ![p] = tree]
    /\ cparent' = [cparent EXCEPT ![p] = parent]
    /\ needMerge' = [needMerge EXCEPT ![p] = FALSE]
    /\ tmpCommit' = [tmpCommit EXCEPT ![p] = NoCommit]
    /\ tip' = [tip EXCEPT ![p] = Nil]
    /\ refusals' = [refusals EXCEPT ![p] = 0]

\* exit: the frame of the call is gone
LeaveCommitToRef(p) ==
    /\ pc' = [pc EXCEPT ![p] = "idle"]
    /\ caller' = [caller EXCEPT ![p] = "none"]
    /\ ctree' = [ctree EXCEPT ![p] = NoTree]
    /\ cparent' = [cparent EXCEPT ![p] = Nil]
    /\ needMerge' = [needMerge EXCEPT ![p] = FALSE]
    /\ tmpCommit' = [tmpCommit EXCEPT ![p] = NoCommit]
    /\ tip' = [tip EXCEPT ![p] = Nil]
    /\ ret' = [ret EXCEPT ![p] = NoRet]
    /\ refusals' = [refusals EXCEPT ![p] = 0]

\* a saturating count of the refused updates of one call
CountRefusal(n) == IF n < MaxRefusals THEN n + 1 ELSE n

\* !needMerge: mkCommit(r, refname, msg, tree, parent)
SimpleCommit(p) ==
    /\ pc[p] = "loop"
    /\ ~needMerge[p]
    /\ LET parents == mkCommitParents(cparent[p], <<>>)
           err == CreateCommitErr(parents)
       IN  IF isGitConcurrencyErr(err)
           THEN /\ needMerge' = [needMerge EXCEPT ![p] = TRUE]
                /\ refusals' = [refusals EXCEPT ![p] = CountRefusal(@)]
                /\ UNCHANGED <<commits, ref, pc, ret>>
           ELSE IF err # "none"
           THEN /\ ret' = [ret EXCEPT ![p] = [commit |-> Nil, err |-> err]]
                /\ pc' = [pc EXCEPT ![p] = "ret"]
                /\ UNCHANGED <<commits, ref, needMerge, refusals>>
           ELSE /\ commits' = Append(commits, NewCommit(ctree[p], parents))
                /\ ref' = Len(commits) + 1
                /\ ret' = [ret EXCEPT ![p] = [commit |-> Len(commits) + 1, err |-> err]]
                /\ pc' = [pc EXCEPT ![p] = "ret"]
                /\ UNCHANGED <<needMerge, refusals>>
    /\ UNCHANGED <<handleVars, runVars, caller, ctree, cparent, tmpCommit, tip>>
    /\ UNCHANGED treeVars
    /\ UNCHANGED extVars

\* needMerge: create the temporary commit once, then look up the tip
LookupTip(p) ==
    /\ pc[p] = "loop"
    /\ needMerge[p]
    /\ tmpCommit' = [tmpCommit EXCEPT ![p] =
            IF @ = NoCommit
            THEN NewCommit(ctree[p], mkCommitParents(cparent[p], <<>>))
            ELSE @]
    /\ IF lookupTip = Nil
       THEN /\ needMerge' = [needMerge EXCEPT ![p] = FALSE]
            /\ UNCHANGED <<pc, tip>>
       ELSE /\ tip' = [tip EXCEPT ![p] = lookupTip]
            /\ pc' = [pc EXCEPT ![p] = "merge"]
            /\ UNCHANGED needMerge
    /\ UNCHANGED <<repoVars, handleVars, runVars, caller, ctree, cparent, ret,
                   refusals>>
    /\ UNCHANGED treeVars
    /\ UNCHANGED extVars

\* MergeCommits(tmpCommit, tip), the conflict loop, WriteTreeTo and
\* mkCommit(r, refname, msg, mergedTree, parent, tip)
MergeCommit(p) ==
    /\ pc[p] = "merge"
    /\ LET base == BaseTree(tmpCommit[p], tip[p])
           ours == tmpCommit[p].tree
           theirs == commits[tip[p]].tree
           parents == mkCommitParents(cparent[p], <<tip[p]>>)
           err == CreateCommitErr(parents)
       IN  IF Unresolved(base, ours, theirs) # {}
           THEN /\ ret' = [ret EXCEPT ![p] = [commit |-> Nil, err |-> "writetree"]]
                /\ pc' = [pc EXCEPT ![p] = "ret"]
                /\ UNCHANGED <<commits, ref, refusals>>
           ELSE IF isGitConcurrencyErr(err)
           THEN /\ pc' = [pc EXCEPT ![p] = "loop"]
                /\ refusals' = [refusals EXCEPT ![p] = CountRefusal(@)]
                /\ UNCHANGED <<commits, ref, ret>>
           ELSE IF err # "none"
           THEN /\ ret' = [ret EXCEPT ![p] = [commit |-> Nil, err |-> err]]
                /\ pc' = [pc EXCEPT ![p] = "ret"]
                /\ UNCHANGED <<commits, ref, refusals>>
           ELSE /\ commits' = Append(commits,
                        NewCommit(MergedTree(base, ours, theirs), parents))
                /\ ref' = Len(commits) + 1
                /\ ret' = [ret EXCEPT ![p] = [commit |-> Len(commits) + 1, err |-> err]]
                /\ pc' = [pc EXCEPT ![p] = "ret"]
                /\ UNCHANGED refusals
    /\ UNCHANGED <<handleVars, runVars, caller, ctree, cparent, needMerge,
                   tmpCommit, tip>>
    /\ UNCHANGED treeVars
    /\ UNCHANGED extVars

\* ------------------------------------------------------------------------
\* The stateful handle of db.go
\* ------------------------------------------------------------------------
Set(h, key, value) ==
    /\ pc[h] = "idle"
    /\ htree' = [htree EXCEPT ![h] = treeAdd(htree[h], key, value)]
    /\ touched' = [touched EXCEPT ![h] = @ \cup {key}]
    /\ UNCHANGED <<repoVars, runVars, hcommit, pc, caller, frameVars, ret,
                   refusals>>
    /\ UNCHANGED treeVars
    /\ UNCHANGED extVars

Delete(h, key) ==
    /\ pc[h] = "idle"
    /\ treeDelOk(htree[h], key)
    /\ htree' = [htree EXCEPT ![h] = treeDel(htree[h], key)]
    /\ touched' = [touched EXCEPT ![h] = @ \cup {key}]
    /\ UNCHANGED <<repoVars, runVars, hcommit, pc, caller, frameVars, ret,
                   refusals>>
    /\ UNCHANGED treeVars
    /\ UNCHANGED extVars

\* a handle that goes on with the tree it holds
hasLatest_Always(h) == TRUE

\* DB.Update: db.commit != nil && db.commit.Id().Equal(tip.Target())
hasLatest(h) == hcommit[h] # Nil /\ hcommit[h] = ref

\* a reload that keeps the tree of the handle
reloaded_Kept(h) == htree[h]

\* DB.Update: commit.Tree() of the commit the reference points at
reloaded(h) == commits[ref].tree

\* DB.Update between Lock and Unlock
Reload(h) ==
    IF ref = Nil
    THEN /\ hcommit' = [hcommit EXCEPT ![h] = Nil]
         /\ UNCHANGED htree
    ELSE IF hasLatest(h)
    THEN UNCHANGED <<hcommit, htree>>
    ELSE /\ hcommit' = [hcommit EXCEPT ![h] = ref]
         /\ htree' = [htree EXCEPT ![h] = reloaded(h)]

Update(h) ==
    /\ pc[h] = "idle"
    /\ Reload(h)
    /\ UNCHANGED <<repoVars, runVars, touched, pc, caller, frameVars, ret,
                   refusals>>
    /\ UNCHANGED treeVars
    /\ UNCHANGED extVars

\* DB.Commit up to the call of CommitToRef; with a nil tree it returns at once
Commit(h) ==
    /\ pc[h] = "idle"
    /\ htree[h] # NoTree
    /\ EnterCommitToRef(h, htree[h], hcommit[h], "Commit")
    /\ UNCHANGED <<repoVars, handleVars, runVars, ret>>
    /\ UNCHANGED treeVars
    /\ UNCHANGED extVars

\* DB.Commit after CommitToRef has returned
CommitReturn(h) ==
    /\ pc[h] = "ret"
    /\ caller[h] = "Commit"
    /\ hcommit' = [hcommit EXCEPT ![h] = IF ret[h].err = "none" THEN ret[h].commit ELSE @]
    /\ LeaveCommitToRef(h)
    /\ UNCHANGED <<repoVars, runVars, htree, touched>>
    /\ UNCHANGED treeVars
    /\ UNCHANGED extVars

Next ==
    \E h \in Handles :
        \/ \E k \in Keys : Set(h, k, ValOf(h))
        \/ \E k \in Keys : Delete(h, k)
        \/ Update(h)
        \/ Commit(h)
        \/ SimpleCommit(h)
        \/ LookupTip(h)
        \/ MergeCommit(h)
        \/ CommitReturn(h)

Spec == Init /\ [][Next]_vars

\* a goroutine inside commitToRef keeps running: the steps of the retry
\* loop of each call are taken as long as they can be
SpecFair ==
    Spec /\ \A h \in Handles :
                WF_vars(SimpleCommit(h) \/ LookupTip(h) \/ MergeCommit(h))

\* ------------------------------------------------------------------------
\* DB.Pull of db.go: a fetch of the tip of another repository into the
\* reference, then DB.Update
\* ------------------------------------------------------------------------
\* the commit the other repository has at the fetched reference: a history
\* of its own, with a value under foo that no local handle writes
RemoteTree == [k \in Keys |-> IF k = "foo" THEN "R" ELSE NoVal]
RemoteCommit == NewCommit(RemoteTree, <<>>)

\* the id of an object of the store, Nil when the store does not have it
IdOf(c) ==
    IF \E i \in 1..Len(commits) : commits[i] = c
    THEN CHOOSE i \in 1..Len(commits) : commits[i] = c
    ELSE Nil

\* remote.Fetch with the refspec ref:db.ref: the objects are downloaded and
\* the reference is set to the fetched tip
PullFetch(h) ==
    /\ pc[h] = "idle"
    /\ IF IdOf(RemoteCommit) # Nil
       THEN /\ ref' = IdOf(RemoteCommit)
            /\ UNCHANGED commits
       ELSE /\ Len(commits) + Cardinality(InFlight) < MaxCommits
            /\ commits' = Append(commits, RemoteCommit)
            /\ ref' = Len(commits) + 1
    /\ pc' = [pc EXCEPT ![h] = "fetched"]
    /\ UNCHANGED <<handleVars, runVars, caller, frameVars, ret, refusals>>
    /\ UNCHANGED treeVars
    /\ UNCHANGED extVars

\* return db.Update()
PullUpdate(h) ==
    /\ pc[h] = "fetched"
    /\ Reload(h)
    /\ pc' = [pc EXCEPT ![h] = "idle"]
    /\ UNCHANGED <<repoVars, runVars, touched, caller, frameVars, ret, refusals>>
    /\ UNCHANGED treeVars
    /\ UNCHANGED extVars

NextPull ==
    \/ Next
    \/ \E h \in Handles : PullFetch(h) \/ PullUpdate(h)

SpecPull == Init /\ [][NextPull]_vars

\* ------------------------------------------------------------------------
\* The stateless database: DB.getTree, DB.setTree and the Query and Commit
\* steps of a pipeline run (Pipeline.Run applies the steps in sequence)
\* ------------------------------------------------------------------------

\* Repository.DB: with an empty name a fresh reference is created on a
\* commit of the empty tree; with a name the reference is left as it is.
InitTx ==
    /\ commits \in {<<>>, <<NewCommit(emptyTree, <<>>)>>}
    /\ ref = Len(commits)
    /\ hcommit = [h \in Handles |-> Nil]
    /\ htree = [h \in Handles |-> NoTree]
    /\ pc = [h \in Handles |-> "idle"]
    /\ caller = [h \in Handles |-> "none"]
    /\ ctree = [h \in Handles |-> NoTree]
    /\ cparent = [h \in Handles |-> Nil]
    /\ needMerge = [h \in Handles |-> FALSE]
    /\ tmpCommit = [h \in Handles |-> NoCommit]
    /\ tip = [h \in Handles |-> Nil]
    /\ ret = [h \in Handles |-> NoRet]
    /\ val = [h \in Handles |-> NoTree]
    /\ result = [h \in Handles |-> "none"]
    /\ wrote = [h \in Handles |-> {}]
    /\ touched = [h \in Handles |-> {}]
    /\ refusals = [h \in Handles |-> 0]
    /\ IdleTree

\* a run that goes on to its next step with the tree it had
EndRun_GoOn(h, outcome) ==
    /\ pc' = [pc EXCEPT ![h] = "applied"]
    /\ val' = val
    /\ result' = [result EXCEPT ![h] = outcome]

\* the run of a pipeline ends: its frame is gone, its outcome is kept
EndRun(h, outcome) ==
    /\ pc' = [pc EXCEPT ![h] = "idle"]
    /\ val' = [val EXCEPT ![h] = NoTree]
    /\ result' = [result EXCEPT ![h] = outcome]

\* Run starts from the empty tree; the Query step ignores its input and
\* reads the tree of the database (getTree), an empty tree when the
\* reference does not exist
OpQuery(h) ==
    /\ pc[h] = "idle"
    /\ val' = [val EXCEPT ![h] = IF ref = Nil THEN emptyTree ELSE commits[ref].tree]
    /\ pc' = [pc EXCEPT ![h] = "queried"]
    /\ result' = [result EXCEPT ![h] = "none"]
    /\ wrote' = [wrote EXCEPT ![h] = {}]
    /\ readHead' = [readHead EXCEPT ![h] = ref]
    /\ UNCHANGED <<repoVars, handleVars, caller, frameVars, ret, refusals>>
    /\ UNCHANGED treeVars
    /\ UNCHANGED <<calls, lock, pipes, store, rw>>

OpSet(h, key, value) ==
    /\ pc[h] = "queried"
    /\ val' = [val EXCEPT ![h] = treeAdd(val[h], key, value)]
    /\ wrote' = [wrote EXCEPT ![h] = @ \cup {key}]
    /\ pc' = [pc EXCEPT ![h] = "applied"]
    /\ UNCHANGED <<repoVars, handleVars, caller, frameVars, ret, result, refusals>>
    /\ UNCHANGED treeVars
    /\ UNCHANGED extVars

\* a failing step aborts the run
OpDelete(h, key) ==
    /\ pc[h] = "queried"
    /\ IF treeDelOk(val[h], key)
       THEN /\ val' = [val EXCEPT ![h] = treeDel(val[h], key)]
            /\ pc' = [pc EXCEPT ![h] = "applied"]
            /\ UNCHANGED result
       ELSE EndRun(h, "error")
    /\ UNCHANGED <<repoVars, handleVars, caller, frameVars, ret, wrote, refusals>>
    /\ UNCHANGED treeVars
    /\ UNCHANGED extVars

\* the Commit step: setTree reads the head of the reference and calls
\* commitToRef with it as the parent
OpCommit(h) ==
    /\ pc[h] \in {"queried", "applied"}
    /\ \/ /\ ref = Nil
          /\ EndRun(h, "noref")
          /\ UNCHANGED <<caller, frameVars, refusals>>
       \/ /\ ref # Nil
          /\ EnterCommitToRef(h, val[h], ref, "setTree")
          /\ UNCHANGED <<val, result>>
    /\ UNCHANGED <<repoVars, handleVars, ret, wrote>>
    /\ UNCHANGED treeVars
    /\ UNCHANGED extVars

\* setTree after commitToRef has returned: the tree of the new commit must
\* have the hash of the tree that was to be committed
setTreeReturn(h) ==
    /\ pc[h] = "ret"
    /\ caller[h] = "setTree"
    /\ result' = [result EXCEPT ![h] =
            IF ret[h].err # "none" THEN ret[h].err
            ELSE IF commits[ret[h].commit].tree # ctree[h] THEN "mismatch"
            ELSE "ok"]
    /\ val' = [val EXCEPT ![h] = NoTree]
    /\ LeaveCommitToRef(h)
    /\ UNCHANGED <<repoVars, handleVars, wrote>>
    /\ UNCHANGED treeVars
    /\ UNCHANGED extVars

\* the run of a pipeline without a Commit step returns its tree
RunReturn(h) ==
    /\ pc[h] \in {"queried", "applied"}
    /\ EndRun(h, "tree")
    /\ UNCHANGED <<repoVars, handleVars, caller, frameVars, ret, wrote, refusals>>
    /\ UNCHANGED treeVars
    /\ UNCHANGED extVars

\* ------------------------------------------------------------------------
\* DB.Set and DB.Get over DB.pipeline: a pipeline is the sequence of its
\* steps, the root first; the handler installed by OnRun sits on the root
\* ------------------------------------------------------------------------
NilOut == [tree |-> NoTree, err |-> "none"]

NewPipeline == <<[op |-> "nop"]>>

\* Tree.Pipeline: a Nop step that does not hold the tree
TreePipeline(tree) == <<[op |-> "nop"]>>

\* the root of p2 gets p1 as its prev
concat(p1, p2) == p1 \o p2

\* Tree.Set and Tree.Get on a possibly nil tree
TreeSet(tree, key, value) ==
    IF tree = NoTree THEN [tree |-> NoTree, err |-> "panic"]
    ELSE [tree |-> treeAdd(tree, key, value), err |-> "none"]

TreeGet(tree, key) ==
    IF tree = NoTree THEN "notexist"
    ELSE IF tree[key] = NoVal THEN "notexist"
    ELSE tree[key]

\* Pipeline.Run of a pipeline without handler: the previous steps run first
\* unless the step is Empty or Nop
RECURSIVE PipelineRun(_)
PipelineRun(t) ==
    LET step == t[Len(t)]
        in == IF Len(t) > 1 /\ step.op \notin {"empty", "nop"}
              THEN PipelineRun(SubSeq(t, 1, Len(t) - 1))
              ELSE NilOut
    IN  IF in.err # "none" THEN in
        ELSE IF step.op = "empty" THEN [tree |-> emptyTree, err |-> "none"]
        ELSE IF step.op = "nop" THEN in
        ELSE TreeSet(in.tree, step.key, step.value)

\* the handler of DB.pipeline up to the test of commit: the tree of the
\* database is read, its pipeline is put before the steps handed over
\* (the root alone, a Nop) and the whole is run
HandlerOut(tree) == PipelineRun(concat(TreePipeline(tree), NewPipeline))

\* DB.Set: Transaction().Set(key, value).Run(). The Set step runs the root
\* first, whose handler calls setTree on its output; setTree reads the head
\* and then the tree field of that output.
DBSet(h, key, value) ==
    /\ pc[h] = "idle"
    /\ result' = [result EXCEPT ![h] =
            IF ref = Nil THEN "noref"
            ELSE IF HandlerOut(commits[ref].tree).tree = NoTree THEN "panic"
            ELSE "none"]
    /\ ref # Nil => HandlerOut(commits[ref].tree).tree = NoTree
    /\ UNCHANGED <<repoVars, handleVars, pc, caller, frameVars, ret, val, wrote,
                   refusals>>
    /\ UNCHANGED treeVars
    /\ UNCHANGED extVars

\* DB.Get: Query().Run(), then Get on the tree returned
DBGet(h, key) ==
    /\ pc[h] = "idle"
    /\ result' = [result EXCEPT ![h] =
            IF ref = Nil THEN "noref"
            ELSE IF HandlerOut(commits[ref].tree).err # "none"
            THEN HandlerOut(commits[ref].tree).err
            ELSE TreeGet(HandlerOut(commits[ref].tree).tree, key)]
    /\ UNCHANGED <<repoVars, handleVars, pc, caller, frameVars, ret, val, wrote,
                   refusals>>
    /\ UNCHANGED treeVars
    /\ UNCHANGED extVars

NextTx ==
    \E h \in Handles :
        \/ OpQuery(h)
        \/ \E k \in Keys : OpSet(h, k, ValOf(h))
        \/ \E k \in Keys : OpDelete(h, k)
        \/ OpCommit(h)
        \/ RunReturn(h)
        \/ SimpleCommit(h)
        \/ LookupTip(h)
        \/ MergeCommit(h)
        \/ setTreeReturn(h)
        \/ \E k \in Keys : DBSet(h, k, ValOf(h))
        \/ \E k \in Keys : DBGet(h, k)

SpecTx == InitTx /\ [][NextTx]_vars

\* ------------------------------------------------------------------------
\* Calls on the handles of the tree algebra (db.go over pipeline.go)
\* ------------------------------------------------------------------------
HandleIds == 0..Len(views)
HScope(h) == IF h = 0 THEN Path(FALSE, <<>>) ELSE views[h].scope
HTree(h) == IF h = 0 THEN dbtree ELSE views[h].tree

\* the key a call arrives with at the root handle: every handle joins its
\* scope to the key and hands the call to its parent
RECURSIVE RootKey(_, _)
RootKey(h, key) ==
    IF h = 0 THEN Join(HScope(0), key)
    ELSE RootKey(views[h].parent, Join(views[h].scope, key))

\* the key of a call that does not go to the parent
OwnKey(h, key) == Join(HScope(h), key)

Called(op, h, key, value, merge, err, res) ==
    [op |-> op, h |-> h, key |-> key, value |-> value, merge |-> merge,
     in |-> dbtree, err |-> err, res |-> res]

\* a process that has panicked, or has read a released handle and crashed,
\* makes no further call
Alive == last.err \notin {"panic", "crash"}
CanCall == Alive /\ nops < MaxOps

\* the root handle takes the tree a pipeline has returned; a handle that
\* was released before it was returned reads as the tree or crashes
WriteRoot(rec, r) ==
    \E outcome \in (IF r.freed THEN {"none", "crash"} ELSE {r.err}) :
        /\ dbtree' = IF outcome = "none" THEN r.tree ELSE dbtree
        /\ last' = [rec EXCEPT !.err = outcome]

\* DB.Scope
ScopeAt(h, p) ==
    /\ Alive
    /\ Len(views) < MaxViews
    /\ views' = Append(views, [scope |-> Join(p, Path(FALSE, <<>>)),
                               tree |-> HTree(h), parent |-> h])
    /\ UNCHANGED <<protoVars, dbtree, last, nops>>
    /\ UNCHANGED extVars

\* DB.Get
GetAt(h, key) ==
    /\ CanCall
    /\ LET r == TreeGetPath(dbtree, TreePath(RootKey(h, key)))
       IN  last' = Called("get", h, key, Absent, FALSE, r.err,
                          [NoRes EXCEPT !.val = r.val])
    /\ nops' = nops + 1
    /\ UNCHANGED <<protoVars, dbtree, views>>
    /\ UNCHANGED extVars

\* DB.List
ListAt(h, key) ==
    /\ CanCall
    /\ LET r == TreeListPath(HTree(h), TreePath(OwnKey(h, key)))
       IN  last' = Called("list", h, key, Absent, FALSE, r.err,
                          [NoRes EXCEPT !.names = r.names])
    /\ nops' = nops + 1
    /\ UNCHANGED <<protoVars, dbtree, views>>
    /\ UNCHANGED extVars

\* DB.Tree
TreeAt(h) ==
    /\ CanCall
    /\ last' = Called("tree", h, Path(FALSE, <<>>), Absent, FALSE,
                      TreeScopeErr(HTree(h), TreePath(HScope(h))),
                      [NoRes EXCEPT !.tree = TreeScope(HTree(h), TreePath(HScope(h)))])
    /\ nops' = nops + 1
    /\ UNCHANGED <<protoVars, dbtree, views>>
    /\ UNCHANGED extVars

\* DB.Set
SetAt(h, key, v) ==
    /\ CanCall
    /\ WriteRoot(Called("set", h, key, Blob(v), TRUE, "none", NoRes),
                 treeAddPath(dbtree, TreePath(RootKey(h, key)), CreateBlob(v), TRUE))
    /\ nops' = nops + 1
    /\ UNCHANGED <<protoVars, views>>
    /\ UNCHANGED extVars

\* DB.Mkdir
MkdirAt(h, key) ==
    /\ CanCall
    /\ WriteRoot(Called("mkdir", h, key, Sub(emptyGitTree), TRUE, "none", NoRes),
                 treeAddPath(dbtree, TreePath(RootKey(h, key)), Sub(emptyGitTree), TRUE))
    /\ nops' = nops + 1
    /\ UNCHANGED <<protoVars, views>>
    /\ UNCHANGED extVars

\* DB.Delete: the call stays on the handle it is made on
DeleteAt(h, key) ==
    /\ CanCall
    /\ LET r == treeDelPath(HTree(h), TreePath(OwnKey(h, key)))
       IN  /\ last' = Called("delete", h, key, Absent, FALSE, r.err, NoRes)
           /\ IF r.err # "none" THEN UNCHANGED <<dbtree, views>>
              ELSE IF h = 0 THEN dbtree' = r.tree /\ UNCHANGED views
              ELSE /\ views' = [views EXCEPT ![h].tree = r.tree]
                   /\ UNCHANGED dbtree
    /\ nops' = nops + 1
    /\ UNCHANGED protoVars
    /\ UNCHANGED extVars

\* Pipeline.Run of Base(tree).Add(key, overlay, merge), its output kept as
\* the tree
PipelineAdd(key, overlay, merge) ==
    /\ CanCall
    /\ WriteRoot(Called("add", 0, key, Sub(overlay), merge, "none", NoRes),
                 treeAddPath(dbtree, TreePath(key), Sub(overlay), merge))
    /\ nops' = nops + 1
    /\ UNCHANGED <<protoVars, views>>
    /\ UNCHANGED extVars

\* the trees of a database opened on a reference that exists, and no tree
\* for a reference that does not exist
InitTrees ==
    {NoTree,
     emptyGitTree,
     [a |-> Blob("x"), b |-> Absent],
     [a |-> Blob("x"), b |-> Sub(emptyGitTree)],
     [a |-> Sub([a |-> Blob("x"), b |-> Blob("")]), b |-> Absent],
     [a |-> Sub([a |-> Absent, b |-> Sub([a |-> Blob("x"), b |-> Absent])]),
      b |-> Blob("x")]}

\* the keys and the overlays of the calls
TreeKeys ==
    {Path(FALSE, <<"a">>), Path(FALSE, <<"b">>), Path(FALSE, <<"a", "a">>),
     Path(FALSE, <<"a", "b">>), Path(TRUE, <<>>)}
Overlays ==
    {emptyGitTree,
     [a |-> Blob("x"), b |-> Absent],
     [a |-> Absent, b |-> Sub([a |-> Blob(""), b |-> Absent])]}

InitTree ==
    /\ IdleProto
    /\ dbtree \in InitTrees
    /\ views = <<>>
    /\ last = NoOp
    /\ nops = 0
    /\ IdleExt

NextTree ==
    \/ \E k \in TreeKeys, v \in Vals : SetAt(0, k, v)
    \/ \E k \in TreeKeys : MkdirAt(0, k)
    \/ \E k \in TreeKeys : DeleteAt(0, k)
    \/ \E k \in TreeKeys, o \in Overlays, m \in BOOLEAN : PipelineAdd(k, o, m)

SpecTree == InitTree /\ [][NextTree]_vars

\* the scopes and the keys of the calls on scoped handles
ScopePrefixes ==
    {Path(FALSE, <<"a">>), Path(FALSE, <<"b">>), Path(FALSE, <<"a", "b">>),
     Path(FALSE, <<>>), Path(TRUE, <<>>)}
ScopeKeys ==
    {Path(FALSE, <<"a">>), Path(FALSE, <<"..", "b">>), Path(TRUE, <<"a">>),
     Path(FALSE, <<>>)}

NextScope ==
    \E h \in HandleIds :
        \/ \E p \in ScopePrefixes : ScopeAt(h, p)
        \/ \E k \in ScopeKeys : GetAt(h, k)
        \/ \E k \in ScopeKeys : ListAt(h, k)
        \/ TreeAt(h)
        \/ \E k \in ScopeKeys : SetAt(h, k, "x")
        \/ \E k \in ScopeKeys : MkdirAt(h, k)
        \/ \E k \in ScopeKeys : DeleteAt(h, k)

SpecScope == InitTree /\ [][NextScope]_vars

\* ------------------------------------------------------------------------
\* Keys as they are written: a key is the sequence of its characters.  The
\* calls of the root handle of db.go on such keys: path.Join(db.scope, key)
\* with the empty scope, then TreePath, then the components.
\* ------------------------------------------------------------------------
MaxKeyLen == 3
Chars == {"/", ".", "a", "b"}

\* strings.Split(s, "/")
RECURSIVE SplitAcc(_, _, _)
SplitAcc(s, cur, acc) ==
    IF s = <<>> THEN Append(acc, cur)
    ELSE IF Head(s) = "/" THEN SplitAcc(Tail(s), <<>>, Append(acc, cur))
    ELSE SplitAcc(Tail(s), Append(cur, Head(s)), acc)

\* the components put together with a slash between them
RECURSIVE JoinComps(_)
JoinComps(comps) ==
    IF comps = <<>> THEN <<>>
    ELSE IF Len(comps) = 1 THEN comps[1]
    ELSE comps[1] \o <<"/">> \o JoinComps(Tail(comps))

\* path.Clean, component by component: empty and "." components are
\* dropped, ".." removes the component before it, is dropped at the root
\* and stays at the start of a path that is not rooted
RECURSIVE cleanComps(_, _, _)
cleanComps(rooted, out, rest) ==
    IF rest = <<>> THEN out
    ELSE IF Head(rest) = <<>> \/ Head(rest) = <<".">>
    THEN cleanComps(rooted, out, Tail(rest))
    ELSE IF Head(rest) # <<".", ".">>
    THEN cleanComps(rooted, Append(out, Head(rest)), Tail(rest))
    ELSE IF out # <<>> /\ out[Len(out)] # <<".", ".">>
    THEN cleanComps(rooted, SubSeq(out, 1, Len(out) - 1), Tail(rest))
    ELSE IF rooted THEN cleanComps(rooted, out, Tail(rest))
    ELSE cleanComps(rooted, Append(out, <<".", ".">>), Tail(rest))

\* path.Clean
pathClean(s) ==
    IF s = <<>> THEN <<".">>
    ELSE LET rooted == s[1] = "/"
             out == cleanComps(rooted, <<>>, SplitAcc(s, <<>>, <<>>))
         IN  IF out = <<>> THEN (IF rooted THEN <<"/">> ELSE <<".">>)
             ELSE (IF rooted THEN <<"/">> ELSE <<>>) \o JoinComps(out)

\* a TrimLeft that trims nothing
TrimLeftSlash_Keep(s) == s

\* strings.TrimLeft(p, "/")
RECURSIVE TrimLeftSlash(_)
TrimLeftSlash(s) ==
    IF s # <<>> /\ Head(s) = "/" THEN TrimLeftSlash(Tail(s)) ELSE s

\* TreePath of db.go
TreePathStr(s) ==
    IF pathClean(s) \in {<<"/">>, <<".">>} THEN <<"/">>
    ELSE TrimLeftSlash(pathClean(s))

\* path.Join(db.scope, key) with the empty scope
RootKeyStr(s) == IF s = <<>> THEN <<>> ELSE pathClean(s)

\* the components of a key after TreePath, as names of entries: the root
\* has none
KeySegs(s) ==
    LET comps == SplitAcc(TreePathStr(s), <<>>, <<>>)
    IN  IF TreePathStr(s) = <<"/">> THEN <<>>
        ELSE [i \in 1..Len(comps) |->
                 IF Len(comps[i]) = 1 THEN comps[i][1] ELSE comps[i]]

\* the keys of the calls: every string of up to MaxKeyLen characters, and
\* the spellings of a/b
Strings(n) == UNION {[1..m -> Chars] : m \in 0..n}
Spellings ==
    {<<"a", "/", "b">>,
     <<".", "/", "a", "/", "b">>,
     <<".", "/", "a", "/", "b", "/">>,
     <<"a", "/", "/", "/", "b", "/", "/", "/", "/">>,
     <<"/", "a", "/", "b">>,
     <<"/", "/", "/", "/", "a", "/", "/", "/", "/", "b", "/">>}
RawKeys == Strings(MaxKeyLen) \cup Spellings

\* what a call on the tree gives for the components of its key
KeyResult(op, tree, segs, value) ==
    CASE op = "set" -> treeAddPath(tree, segs, value, TRUE)
      [] op = "mkdir" -> treeAddPath(tree, segs, Sub(emptyGitTree), TRUE)
      [] op = "delete" -> treeDelPath(tree, segs)
      [] op = "get" -> TreeGetPath(tree, segs)
      [] op = "list" -> TreeListPath(tree, segs)

\* DB.Set, DB.Mkdir, DB.Delete, DB.Get and DB.List of the root handle with
\* the key as it is written; a handle released before it was returned
\* reads as the tree or crashes
KeyCall(op, raw, value) ==
    /\ CanCall
    /\ LET r == KeyResult(op, dbtree, KeySegs(RootKeyStr(raw)), value)
           freed == op \in {"set", "mkdir"} /\ r.freed
       IN  \E outcome \in (IF freed THEN {"none", "crash"} ELSE {r.err}) :
             /\ last' = Called(op, 0, raw, value, TRUE, outcome, r)
             /\ dbtree' = IF op \in {"set", "mkdir", "delete"} /\ outcome = "none"
                          THEN r.tree ELSE dbtree
    /\ nops' = nops + 1
    /\ UNCHANGED <<protoVars, views>>
    /\ UNCHANGED extVars

NextKey ==
    \/ \E k \in RawKeys, v \in Vals : KeyCall("set", k, CreateBlob(v))
    \/ \E k \in RawKeys : KeyCall("mkdir", k, Absent)
    \/ \E k \in RawKeys : KeyCall("delete", k, Absent)
    \/ \E k \in RawKeys : KeyCall("get", k, Absent)
    \/ \E k \in RawKeys : KeyCall("list", k, Absent)

SpecKey == InitTree /\ [][NextKey]_vars

\* ------------------------------------------------------------------------
\* Annotations (annotations.go): the key of the annotation of a path is the
\* number of components of the path, a slash, and the path
\* ------------------------------------------------------------------------
MaxAnnLen == 4
Digits == <<"1", "2", "3", "4", "5", "6", "7", "8", "9">>

\* a count that sees no slash
SlashCount_Zero(s) == 0

\* strings.Count(target, "/")
SlashCount(s) == Cardinality({i \in 1..Len(s) : s[i] = "/"})

\* fmt.Sprintf("%d", n) for a number of one digit
DigitOf(n) == IF n = 0 THEN <<"0">> ELSE <<Digits[n]>>

MkAnnotation(target) ==
    IF TreePathStr(target) = <<"/">> THEN <<"0">>
    ELSE DigitOf(SlashCount(TreePathStr(target)) + 1) \o <<"/">> \o TreePathStr(target)

\* strconv.ParseInt(comp, 10, 32) of a component without a sign: the
\* number, -1 for an error (an empty component, a character that is no
\* digit)
DigitChars == <<"0", "1", "2", "3", "4", "5", "6", "7", "8", "9">>
IsDigit(c) == \E n \in 1..Len(DigitChars) : DigitChars[n] = c
DigitVal(c) == (CHOOSE n \in 1..Len(DigitChars) : DigitChars[n] = c) - 1

RECURSIVE ParseDigits(_, _)
ParseDigits(comp, acc) ==
    IF comp = <<>> THEN acc
    ELSE IF ~IsDigit(Head(comp)) THEN -1
    ELSE ParseDigits(Tail(comp), acc * 10 + DigitVal(Head(comp)))

ParseLevel(comp) == IF comp = <<>> THEN -1 ELSE ParseDigits(comp, 0)

\* path.Join(parts...): the elements that are not empty, joined and cleaned
JoinParts(parts) ==
    LET notEmpty(c) == c # <<>>
    IN  IF SelectSeq(parts, notEmpty) = <<>> THEN <<>>
        ELSE pathClean(JoinComps(SelectSeq(parts, notEmpty)))

ParseAnnotation(annot) ==
    LET parts == SplitAcc(TreePathStr(annot), <<>>, <<>>)
        lvl == ParseLevel(parts[1])
    IN  IF lvl = -1 THEN [err |-> "parseint", target |-> <<>>]
        ELSE IF lvl = 0 THEN [err |-> "none", target |-> <<>>]
        ELSE IF Len(parts) - 1 # lvl THEN [err |-> "invalid", target |-> <<>>]
        ELSE [err |-> "none", target |-> JoinParts(Tail(parts))]

\* the paths annotated: every string of up to MaxAnnLen characters
AnnPaths == Strings(MaxAnnLen)

\* MkAnnotation(p)
AnnotationMk(p) ==
    /\ last.op = "none"
    /\ last' = [NoOp EXCEPT !.op = "mkannotation", !.key = p, !.res = MkAnnotation(p)]
    /\ UNCHANGED <<protoVars, dbtree, views, nops>>
    /\ UNCHANGED extVars

\* ParseAnnotation of the key MkAnnotation has made
AnnotationParse ==
    /\ last.op = "mkannotation"
    /\ last' = [last EXCEPT !.op = "parseannotation", !.value = last.res,
                            !.res = ParseAnnotation(last.res)]
    /\ UNCHANGED <<protoVars, dbtree, views, nops>>
    /\ UNCHANGED extVars

NextAnn == (\E p \in AnnPaths : AnnotationMk(p)) \/ AnnotationParse

SpecAnn == Init /\ [][NextAnn]_vars

\* the annotation keys parsed on their own: every string of up to
\* MaxAnnKeyLen characters of a slash, three digits and a letter
MaxAnnKeyLen == 5
AnnChars == {"/", "0", "1", "2", "a"}
AnnKeys == UNION {[1..m -> AnnChars] : m \in 0..MaxAnnKeyLen}

\* ParseAnnotation(s) of a key as WalkAnnotations finds it
AnnotationParseKey(s) ==
    /\ last.op = "none"
    /\ last' = [NoOp EXCEPT !.op = "parsekey", !.key = s, !.res = ParseAnnotation(s)]
    /\ UNCHANGED <<protoVars, dbtree, views, nops>>
    /\ UNCHANGED extVars

NextParse == \E s \in AnnKeys : AnnotationParseKey(s)

SpecParse == Init /\ [][NextParse]_vars

\* ------------------------------------------------------------------------
\* The pass-through steps of a pipeline run (Pipeline.Run of the list
\* pipeline over Tree): the tree passed from step to step is kept in dbtree,
\* a failed step ends the run
\* ------------------------------------------------------------------------

\* a step that hands on its input when accept holds, and fails otherwise
PassErr(accept, err) == IF accept THEN "none" ELSE err

\* the output of a step that hands on its input: nil when it has failed
PassOut(err) == IF err = "none" THEN dbtree ELSE NoTree

\* git_tree_walk in pre-order (GIT_TREEWALK_PRE): every entry with its
\* path, a sub-tree before its entries
RECURSIVE WalkFrom(_, _, _)
WalkFrom(tree, parent, i) ==
    IF i > Len(NameSeq) THEN <<>>
    ELSE LET n == NameSeq[i]
             here == [key |-> Append(parent, n), entry |-> tree[n]]
         IN  (IF IsAbsent(tree[n]) THEN <<>>
              ELSE IF IsBlob(tree[n]) THEN <<here>>
              ELSE <<here>> \o WalkFrom(tree[n].tree, Append(parent, n), 1))
             \o WalkFrom(tree, parent, i + 1)

TreeWalkEntries(tree) == WalkFrom(tree, <<>>, 1)

\* OpAssertEq
StepAssertEq(key, v) ==
    /\ CanCall
    /\ LET r == TreeGetPath(dbtree, TreePath(key))
           err == IF r.err # "none" THEN r.err ELSE PassErr(r.val = v, "assert")
       IN  last' = Called("asserteq", 0, key, Blob(v), FALSE, err,
                          [NoRes EXCEPT !.tree = PassOut(err)])
    /\ nops' = nops + 1
    /\ UNCHANGED <<protoVars, dbtree, views>>
    /\ UNCHANGED extVars

\* OpAssertNotExist
StepAssertNotExist(key) ==
    /\ CanCall
    /\ LET r == TreeGetPath(dbtree, TreePath(key))
           err == PassErr(r.err # "none", "assert")
       IN  last' = Called("assertnotexist", 0, key, Absent, FALSE, err,
                          [NoRes EXCEPT !.tree = PassOut(err)])
    /\ nops' = nops + 1
    /\ UNCHANGED <<protoVars, dbtree, views>>
    /\ UNCHANGED extVars

\* OpDump: Tree.Dump writes a line for every entry the walk visits
StepDump ==
    /\ CanCall
    /\ last' = Called("dump", 0, Path(TRUE, <<>>), Absent, FALSE,
                      PassErr(dbtree # NoTree, "notree"),
                      [NoRes EXCEPT !.tree = dbtree,
                                    !.out = IF dbtree = NoTree THEN <<>>
                                            ELSE TreeWalkEntries(dbtree)])
    /\ nops' = nops + 1
    /\ UNCHANGED <<protoVars, dbtree, views>>
    /\ UNCHANGED extVars

\* OpWalk: Tree.Walk hands TreeWalk a handler of its own, which returns the
\* error "not implemented" for the first entry visited; the handler of the
\* caller is not called.  The step returns its input beside the error.
StepWalk ==
    /\ CanCall
    /\ last' = Called("walk", 0, Path(TRUE, <<>>), Absent, FALSE,
                      IF dbtree = NoTree THEN "notree"
                      ELSE PassErr(TreeWalkEntries(dbtree) = <<>>, "notimplemented"),
                      [NoRes EXCEPT !.tree = dbtree, !.out = <<>>])
    /\ nops' = nops + 1
    /\ UNCHANGED <<protoVars, dbtree, views>>
    /\ UNCHANGED extVars

\* the run starts from a tree (Run starts from the empty tree, a pipeline of
\* a tree from that tree)
InitPipe == InitTree /\ dbtree # NoTree

NextPipe ==
    /\ last.err = "none"
    /\ \/ \E k \in TreeKeys, v \in Vals : SetAt(0, k, v)
       \/ \E k \in TreeKeys : DeleteAt(0, k)
       \/ \E k \in TreeKeys, v \in Vals : StepAssertEq(k, v)
       \/ \E k \in TreeKeys : StepAssertNotExist(k)
       \/ StepDump
       \/ StepWalk

SpecPipe == InitPipe /\ [][NextPipe]_vars

\* the keys of the reads: spellings of the root, entries at the top and
\* below, existing or not
ReadKeys ==
    {Path(FALSE, <<>>), Path(TRUE, <<>>), Path(FALSE, <<"a", "..">>),
     Path(FALSE, <<"a">>), Path(TRUE, <<"a">>), Path(FALSE, <<"b">>),
     Path(FALSE, <<"a", "a">>), Path(FALSE, <<"a", "b">>),
     Path(FALSE, <<"b", "a">>), Path(FALSE, <<"a", "b", "a">>)}

NextRead ==
    \/ \E k \in ReadKeys : GetAt(0, k)
    \/ \E k \in ReadKeys : ListAt(0, k)

SpecRead == InitTree /\ [][NextRead]_vars

\* ------------------------------------------------------------------------
\* Goroutines that share handle 0 (db.go): a call is the read of db.tree,
\* the run of the pipeline on what was read, and the write of db.tree.
\* DB.Mkdir holds db.l from its first to its last step; DB.Set takes no lock.
\* ------------------------------------------------------------------------
LockKeys == {Path(FALSE, <<"a">>), Path(FALSE, <<"b">>)}

Began(op, key, value) ==
    [op |-> op, key |-> key, value |-> value, base |-> dbtree,
     done |-> FALSE, err |-> "none"]

\* the pipeline of a Set or a Mkdir, run on the tree the call has read
RunOn(c) ==
    treeAddPath(c.base, TreePath(Join(HScope(0), c.key)),
                IF c.op = "set" THEN CreateBlob(c.value.blob) ELSE Sub(emptyGitTree),
                TRUE)

\* the last step of a call: db.tree = newTree unless the run has failed
EndCall(g) ==
    /\ calls' = [calls EXCEPT ![g].done = TRUE, ![g].err = RunOn(calls[g]).err]
    /\ dbtree' = IF RunOn(calls[g]).err = "none" THEN RunOn(calls[g]).tree ELSE dbtree

\* DB.Set: p.Base(db.tree)
GoSetBegin(g, key, v) ==
    /\ calls[g].done
    /\ nops < MaxOps
    /\ calls' = [calls EXCEPT ![g] = Began("set", key, Blob(v))]
    /\ nops' = nops + 1
    /\ UNCHANGED <<protoVars, dbtree, views, last, lock, pipes, store, readHead, rw>>

\* DB.Set: Set(key, value).Run() and db.tree = newTree
GoSetEnd(g) ==
    /\ ~calls[g].done
    /\ calls[g].op = "set"
    /\ EndCall(g)
    /\ UNCHANGED <<protoVars, views, last, nops, lock, pipes, store, readHead, rw>>

\* DB.Mkdir: db.l.Lock() and p.Base(db.tree)
GoMkdirBegin(g, key) ==
    /\ calls[g].done
    /\ nops < MaxOps
    /\ lock = "free"
    /\ lock' = g
    /\ calls' = [calls EXCEPT ![g] = Began("mkdir", key, Absent)]
    /\ nops' = nops + 1
    /\ UNCHANGED <<protoVars, dbtree, views, last, pipes, store, readHead, rw>>

\* DB.Mkdir: Mkdir(key).Run(), db.tree = newTree and the deferred Unlock
GoMkdirEnd(g) ==
    /\ ~calls[g].done
    /\ calls[g].op = "mkdir"
    /\ EndCall(g)
    /\ lock' = "free"
    /\ UNCHANGED <<protoVars, views, last, nops, pipes, store, readHead, rw>>

NextLock ==
    \E g \in Goroutines :
        \/ \E k \in LockKeys : GoSetBegin(g, k, "x")
        \/ GoSetEnd(g)
        \/ \E k \in LockKeys : GoMkdirBegin(g, k)
        \/ GoMkdirEnd(g)

SpecLock == InitTree /\ [][NextLock]_vars

\* ------------------------------------------------------------------------
\* DB.AddDB and DB.Add (db.go) by goroutines on handles with locks of their
\* own.  sync.RWMutex: RLock goes on when no writer holds the lock, Lock
\* when nobody holds it (a Lock that waits also stops later RLocks; that
\* is left out, it only adds waiting).
\* ------------------------------------------------------------------------
MaxAdds == 3

\* db.parent
ParentOf(h) == IF h = "v" THEN "a" ELSE "none"

CanRLock(h) == rw.l[h].writer = "none"
CanLock(h) == rw.l[h].writer = "none" /\ rw.l[h].readers = {}

RwFrame == UNCHANGED <<protoVars, calls, lock, pipes, store, readHead>> /\ UNCHANGED treeVars

\* DB.Set on a handle of its own: db.tree is set
AddDBSet(h) ==
    /\ ParentOf(h) = "none"
    /\ ~rw.tree[h]
    /\ rw' = [rw EXCEPT !.tree[h] = TRUE]
    /\ RwFrame

\* AddDB: src.l.RLock() and the test of src.tree
AddDBBegin(g, dst, src) ==
    /\ rw.at[g].pc = "idle"
    /\ rw.n < MaxAdds
    /\ CanRLock(src)
    /\ rw' = [rw EXCEPT !.l[src].readers = @ \cup {g},
                        !.at[g] = [pc |-> IF rw.tree[src] THEN "add" ELSE "runlock",
                                   dst |-> dst, src |-> src],
                        !.n = @ + 1]
    /\ RwFrame

\* Add: db.l.Lock()
AddLock(g) ==
    /\ rw.at[g].pc = "add"
    /\ CanLock(rw.at[g].dst)
    /\ rw' = [rw EXCEPT !.l[rw.at[g].dst].writer = g,
                        !.at[g].pc = IF ParentOf(rw.at[g].dst) # "none"
                                     THEN "parent" ELSE "run"]
    /\ RwFrame

\* Add on a view: db.parent.Add, which locks the parent
AddParentLock(g) ==
    /\ rw.at[g].pc = "parent"
    /\ CanLock(ParentOf(rw.at[g].dst))
    /\ rw' = [rw EXCEPT !.l[ParentOf(rw.at[g].dst)].writer = g,
                        !.at[g].pc = "run"]
    /\ RwFrame

\* the handle whose tree Add writes
AddTarget(h) == IF ParentOf(h) # "none" THEN ParentOf(h) ELSE h

\* Add: the run of the pipeline, db.tree = newTree and the deferred Unlocks
AddRun(g) ==
    /\ rw.at[g].pc = "run"
    /\ rw' = [rw EXCEPT
                 !.tree[AddTarget(rw.at[g].dst)] = TRUE,
                 !.l = [h \in AddHandles |->
                          IF rw.l[h].writer = g THEN [rw.l[h] EXCEPT !.writer = "none"]
                          ELSE rw.l[h]],
                 !.at[g].pc = "runlock"]
    /\ RwFrame

\* AddDB: the deferred src.l.RUnlock() and the return
AddDBReturn(g) ==
    /\ rw.at[g].pc = "runlock"
    /\ rw' = [rw EXCEPT !.l[rw.at[g].src].readers = @ \ {g},
                        !.at[g].pc = "idle"]
    /\ RwFrame

NextAddDB ==
    \/ \E h \in AddHandles : AddDBSet(h)
    \/ \E g \in Goroutines :
          \/ \E dst \in AddHandles, src \in AddHandles : AddDBBegin(g, dst, src)
          \/ AddLock(g)
          \/ AddParentLock(g)
          \/ AddRun(g)
          \/ AddDBReturn(g)

SpecAddDB == Init /\ [][NextAddDB]_vars

\* ------------------------------------------------------------------------
\* Tar streams (DB.SetTar, DB.GetTar): an entry of a stream is a header
\* with the name and the size, and the content; the data of the entries is
\* the sub-tree _fs_data, the headers are under _fs_meta by the hash of the
\* cleaned name
\* ------------------------------------------------------------------------
MaxEntries == 2
TarNames ==
    {<<"a">>, <<"b">>, <<"/", "a">>, <<"a", "/", "b">>, <<"b", "/", "a">>,
     <<"/", "a", "/", "b">>}
SizeOf(v) == IF v = "" THEN 0 ELSE 1
TarEntry(name, v) == [hdr |-> [name |-> name, size |-> SizeOf(v)], content |-> v]

\* the streams of one to MaxEntries regular files with names of their own
TarStreams ==
    {s \in UNION {[1..n -> {TarEntry(nm, v) : nm \in TarNames, v \in Vals}] :
                     n \in 1..MaxEntries} :
        \A i, j \in DOMAIN s : i # j => s[i].hdr.name # s[j].hdr.name}

\* metaPath: the hash of path.Clean(name); sha1 has no collisions
metaPath(name) == [sha1 |-> pathClean(name)]

\* DB.SetTar: for every entry the header goes to metaPath(hdr.Name) and the
\* content to path.Join("_fs_data", hdr.Name)
RECURSIVE SetTarFrom(_, _, _)
SetTarFrom(s, meta, data) ==
    IF s = <<>> THEN [err |-> "none", meta |-> meta, data |-> data]
    ELSE LET r == treeAddPath(data, KeySegs(pathClean(Head(s).hdr.name)),
                              CreateBlob(Head(s).content), TRUE)
         IN  IF r.err # "none" THEN [err |-> r.err, meta |-> meta, data |-> data]
             ELSE SetTarFrom(Tail(s),
                             (metaPath(Head(s).hdr.name) :> Head(s).hdr) @@ meta,
                             r.tree)

\* the name the walk gives the handler: path.Join(parent, e.Name), from the
\* top of the data tree
WalkName(segs) == JoinComps([i \in 1..Len(segs) |-> <<segs[i]>>])

\* DB.GetTar: the walk of the data tree; for every entry, sub-trees
\* included, the header is read from metaPath(name) and written, with the
\* content when the entry is a blob
RECURSIVE GetTarFrom(_, _, _)
GetTarFrom(entries, meta, out) ==
    IF entries = <<>> THEN [err |-> "none", out |-> out]
    ELSE LET e == Head(entries)
             k == metaPath(WalkName(e.key))
         IN  IF k \notin DOMAIN meta THEN [err |-> "notfound", out |-> out]
             ELSE GetTarFrom(Tail(entries), meta,
                             Append(out, [hdr |-> meta[k],
                                          content |-> IF IsBlob(e.entry) /\ meta[k].size > 0
                                                      THEN e.entry.blob ELSE ""]))

GetTarOf(meta, data) ==
    IF data = NoTree THEN [err |-> "notree", out |-> <<>>]
    ELSE GetTarFrom(TreeWalkEntries(data), meta, <<>>)

\* SetTar(s) on a fresh database
TarSet(s) ==
    /\ last.op = "none"
    /\ last' = [NoOp EXCEPT !.op = "settar", !.key = s,
                            !.err = SetTarFrom(s, <<>>, NoTree).err,
                            !.res = SetTarFrom(s, <<>>, NoTree)]
    /\ dbtree' = SetTarFrom(s, <<>>, NoTree).data
    /\ UNCHANGED <<protoVars, views, nops>>
    /\ UNCHANGED extVars

\* GetTar on the database SetTar has filled
TarGet ==
    /\ last.op = "settar"
    /\ last.err = "none"
    /\ last' = [last EXCEPT !.op = "gettar",
                            !.err = GetTarOf(last.res.meta, dbtree).err,
                            !.res = GetTarOf(last.res.meta, dbtree)]
    /\ UNCHANGED <<protoVars, dbtree, views, nops>>
    /\ UNCHANGED extVars

NextTar == (\E s \in TarStreams : TarSet(s)) \/ TarGet

SpecTar == Init /\ [][NextTar]_vars

\* ------------------------------------------------------------------------
\* Pipelines put together.  A Pipeline of global.go is its last step; a
\* step holds a pointer to the step before it, 0 for none.  A Pipeline of
\* part_011 is a list of steps.  The two types are versions of one type: a
\* program has pipelines of one kind.
\* ------------------------------------------------------------------------
MaxNodes == 4
MaxList == 3
PipeVals == {"A", "B"}

StepOf(n) == [op |-> n.op, key |-> n.key, value |-> n.value]
NewStep(prev, op, key, value) ==
    [prev |-> prev, op |-> op, key |-> key, value |-> value]

\* the steps from the root to p, as ids, found as concat and Run find them:
\* by following prev
RECURSIVE PathTo(_, _)
PathTo(nodes, p) ==
    IF p = 0 THEN <<>> ELSE Append(PathTo(nodes, nodes[p].prev), p)

ChainIn(nodes, p) ==
    LET ids == PathTo(nodes, p)
    IN  [i \in 1..Len(ids) |-> StepOf(nodes[ids[i]])]

\* Pipeline.Run of global.go on p
RunIn(nodes, p) == PipelineRun(ChainIn(nodes, p))

\* the steps of a sequence applied one after the other to a tree, the run
\* ending at the first error; Pipeline.Run of part_011 does this from the
\* empty tree
RECURSIVE FoldSteps(_, _)
FoldSteps(in, steps) ==
    IF steps = <<>> \/ in.err # "none" THEN in
    ELSE LET s == Head(steps)
             out == IF s.op = "nop" THEN in
                    ELSE IF s.op = "empty" THEN [tree |-> emptyTree, err |-> "none"]
                    ELSE TreeSet(in.tree, s.key, s.value)
         IN  FoldSteps(out, Tail(steps))

ListRun(steps) == FoldSteps([tree |-> emptyTree, err |-> "none"], steps)

HeapEra == pipes.lists = NoPipes.lists
ListEra == pipes.nodes = <<>>
Pipes == 1..Len(pipes.nodes)

AddNode(n) ==
    /\ HeapEra
    /\ Len(pipes.nodes) < MaxNodes
    /\ pipes' = [pipes EXCEPT !.nodes = Append(@, n)]
    /\ UNCHANGED <<protoVars, calls, lock, store, readHead, rw>>
    /\ UNCHANGED treeVars

\* NewPipeline of global.go
PipeNew == AddNode(NewStep(0, "nop", "", ""))

\* Pipeline.Empty and Pipeline.Set of global.go: setPrev
PipeEmpty(p) == AddNode(NewStep(p, "empty", "", ""))

PipeSet(p, key, value) == AddNode(NewStep(p, "set", key, value))

\* where concat puts p1: the prev of the root of p2
concatTarget(nodes, p2) == Head(PathTo(nodes, p2))

concatNodes(nodes, p1, p2) ==
    IF concatTarget(nodes, p2) = 0 THEN nodes
    ELSE [nodes EXCEPT ![concatTarget(nodes, p2)].prev = p1]

\* concat(p1, p2) of global.go, for p1 and p2 that are not nil and where
\* the root of p2 is not a step of p1 (prev would come back to the root)
PipeConcat(p1, p2) ==
    /\ HeapEra
    /\ Head(PathTo(pipes.nodes, p2)) \notin {PathTo(pipes.nodes, p1)[i] :
                                              i \in 1..Len(PathTo(pipes.nodes, p1))}
    /\ pipes' = [pipes EXCEPT
                   !.nodes = concatNodes(pipes.nodes, p1, p2),
                   !.cat = [kind |-> "concat", p1 |-> p1, p2 |-> p2, res |-> p2,
                            before |-> pipes.nodes,
                            after |-> concatNodes(pipes.nodes, p1, p2)]]
    /\ UNCHANGED <<protoVars, calls, lock, store, readHead, rw>>
    /\ UNCHANGED treeVars

\* Pipeline.Set of part_011: PushBack(OpSet(key, value))
ListSet(l, key, value) ==
    /\ ListEra
    /\ Len(pipes.lists[l]) < MaxList
    /\ pipes' = [pipes EXCEPT !.lists[l] = Append(@, NewStep(0, "set", key, value))]
    /\ UNCHANGED <<protoVars, calls, lock, store, readHead, rw>>
    /\ UNCHANGED treeVars

\* Pipeline.PushBackPipeline: PushBackList inserts a copy of other's steps
PushBackPipeline(l, other) ==
    /\ ListEra
    /\ pipes.lists[other] # <<>>
    /\ Len(pipes.lists[l]) + Len(pipes.lists[other]) <= MaxList
    /\ pipes' = [pipes EXCEPT
                   !.lists[l] = @ \o pipes.lists[other],
                   !.cat = [kind |-> "pushback", p1 |-> l, p2 |-> other, res |-> l,
                            before |-> pipes.lists,
                            after |-> [pipes.lists EXCEPT
                                         ![l] = @ \o pipes.lists[other]]]]
    /\ UNCHANGED <<protoVars, calls, lock, store, readHead, rw>>
    /\ UNCHANGED treeVars

NextCat ==
    \/ PipeNew
    \/ \E p \in Pipes : PipeEmpty(p)
    \/ \E p \in Pipes, k \in Keys, v \in PipeVals : PipeSet(p, k, v)
    \/ \E p1, p2 \in Pipes : PipeConcat(p1, p2)
    \/ \E l \in {1, 2}, k \in Keys, v \in PipeVals : ListSet(l, k, v)
    \/ \E l, other \in {1, 2} : PushBackPipeline(l, other)

SpecCat == Init /\ [][NextCat]_vars

\* ------------------------------------------------------------------------
\* The object database under the calls of one handle of db.go.  An object
\* has the id it was first written under (its position): writing content
\* the database has gives the id of that object.
\* ------------------------------------------------------------------------
MaxObjs == 3
MaxStoreCommits == 3
StoreKeys == {<<"a">>, <<"a", "b">>}

IdOfTree(objs, t) == CHOOSE i \in 1..Len(objs) : objs[i] = t

\* a write that reuses the place of the object written last
Put_InPlace(objs, t) ==
    IF objs = <<>> THEN <<t>> ELSE [objs EXCEPT ![Len(objs)] = t]

\* TreeBuilder.Write, Index.WriteTreeTo: the object is added unless the
\* database has it
Put(objs, t) ==
    IF \E i \in 1..Len(objs) : objs[i] = t THEN objs ELSE Append(objs, t)

\* db.tree
StoreTree == IF store.tree = 0 THEN NoTree ELSE store.objs[store.tree]

StoreFrame == UNCHANGED <<protoVars, calls, lock, pipes, readHead, rw>> /\ UNCHANGED treeVars

\* the end of Set, Delete, Mkdir and Add: the run has written its tree and
\* db.tree = newTree; a failed run changes nothing
Wrote(r) ==
    /\ r.err = "none"
    /\ Len(Put(store.objs, r.tree)) <= MaxObjs
    /\ store' = [store EXCEPT
                   !.objs = Put(@, r.tree),
                   !.tree = IdOfTree(Put(store.objs, r.tree), r.tree)]
    /\ StoreFrame

StoreSet(k) == Wrote(treeAddPath(StoreTree, k, CreateBlob("x"), TRUE))

StoreDelete(k) == Wrote(treeDelPath(StoreTree, k))

StoreMkdir(k) == Wrote(treeAddPath(StoreTree, k, Sub(emptyGitTree), TRUE))

\* DB.Add of a tree of the database
StoreAdd(k, o) == Wrote(treeAddPath(StoreTree, k, Sub(store.objs[o]), TRUE))

\* Tree.Scope: the sub-tree is looked up and handed out as a tree
StoreScope(k) ==
    /\ TreeScope(StoreTree, k) # NoTree
    /\ Len(Put(store.objs, TreeScope(StoreTree, k))) <= MaxObjs
    /\ store' = [store EXCEPT !.objs = Put(@, TreeScope(StoreTree, k))]
    /\ StoreFrame

StoreCommitOf(t, parent) == [tree |-> t, parent |-> parent]

\* the trees MergeCommits can write for ours and the tip: the entries of
\* both, one side's entry where both have one
MergedTrees(ours, theirs) ==
    {treeAddPath(theirs, <<>>, Sub(ours), TRUE).tree,
     treeAddPath(ours, <<>>, Sub(theirs), TRUE).tree}

\* DB.Commit: CommitToRef makes the commit on db.commit when the reference
\* is where db.commit is; else it makes the temporary commit, writes the
\* merged tree and commits that on the tip
StoreCommit ==
    /\ store.tree # 0
    /\ IF store.ref = store.commit
       THEN /\ Len(store.commits) < MaxStoreCommits
            /\ store' = [store EXCEPT
                           !.commits = Append(@, StoreCommitOf(store.tree, store.commit)),
                           !.ref = Len(store.commits) + 1,
                           !.commit = Len(store.commits) + 1]
       ELSE /\ Len(store.commits) + 1 < MaxStoreCommits
            /\ \E m \in MergedTrees(StoreTree, store.objs[store.commits[store.ref].tree]) :
                 /\ Len(Put(store.objs, m)) <= MaxObjs
                 /\ store' = [store EXCEPT
                                !.objs = Put(@, m),
                                !.commits = @ \o
                                    <<StoreCommitOf(store.tree, store.commit),
                                      StoreCommitOf(IdOfTree(Put(store.objs, m), m),
                                                    store.ref)>>,
                                !.ref = Len(store.commits) + 2,
                                !.commit = Len(store.commits) + 2]
    /\ StoreFrame

\* another handle of the reference commits a tree of its own
StoreOtherCommit(o) ==
    /\ Len(store.commits) < MaxStoreCommits
    /\ store' = [store EXCEPT
                   !.commits = Append(@, StoreCommitOf(o, store.ref)),
                   !.ref = Len(store.commits) + 1]
    /\ StoreFrame

\* DB.Update
StoreUpdate ==
    /\ store' = IF store.ref = 0 THEN [store EXCEPT !.commit = 0]
                ELSE IF store.commit = store.ref THEN store
                ELSE [store EXCEPT !.commit = store.ref,
                                   !.tree = store.commits[store.ref].tree]
    /\ StoreFrame

NextStore ==
    \/ \E k \in StoreKeys : StoreSet(k)
    \/ \E k \in StoreKeys : StoreDelete(k)
    \/ \E k \in StoreKeys : StoreMkdir(k)
    \/ \E k \in StoreKeys, o \in 1..Len(store.objs) : StoreAdd(k, o)
    \/ \E k \in StoreKeys : StoreScope(k)
    \/ StoreCommit
    \/ \E o \in 1..Len(store.objs) : StoreOtherCommit(o)
    \/ StoreUpdate

SpecStore == Init /\ [][NextStore]_vars

\* ------------------------------------------------------------------------
\* Properties of the commit protocol and of the stateful handle
\* ------------------------------------------------------------------------

\* a call of commitToRef has just returned a commit to its caller
Returned(h) == pc[h] = "ret" /\ ret[h].err = "none"

\* C1: no committed state is silently lost: a commit call that moves the
\* reference, made by a handle that never set or deleted key k, leaves the
\* value of k at the tip as it was.
C1_NoSilentLoss ==
    [][\A h \in Handles :
         (pc[h] # "ret" /\ pc'[h] = "ret" /\ caller[h] = "Commit"
            /\ ref # Nil /\ ref' # ref)
         => \A k \in Keys \ touched[h] :
                commits'[ref'].tree[k] = commits[ref].tree[k]]_vars

\* C3: two handles started from the same tip and both changed foo; the
\* first has committed; the second commit, merged against the tip that is
\* still current, succeeds, foo has the second committer's value and the
\* keys only the first committer changed keep the first committer's value.
C3_SecondCommitMerges ==
    [][\A h \in Handles :
         LET base == commits[cparent[h]].tree
             ours == ctree[h]
             theirs == commits[tip[h]].tree
         IN  (pc[h] = "merge" /\ pc'[h] # "merge" /\ caller[h] = "Commit"
                /\ ref = tip[h]
                /\ cparent[h] # Nil
                /\ commits[tip[h]].parents = <<cparent[h]>>
                /\ ours["foo"] \notin {NoVal, base["foo"]}
                /\ theirs["foo"] \notin {NoVal, base["foo"], ours["foo"]})
             => /\ pc'[h] = "ret"
                /\ ret'[h].err = "none"
                /\ commits'[ref'].tree["foo"] = ours["foo"]
                /\ \A k \in Keys :
                      ours[k] = base[k] => commits'[ref'].tree[k] = theirs[k]]_vars

C7_ConflictNeverReturned ==
    \A h \in Handles : pc[h] = "ret" => ret[h].err # "conflict"

\* a call whose update was refused twice has returned
C7_Witness ==
    \E h \in Handles : pc[h] = "ret" /\ refusals[h] >= 2

\* C9: the retry loop is bounded: a call whose reference updates have been
\* refused MaxRefusals times does not try again, its next step returns the
\* "too many retries" error.
C9_RetryBounded ==
    [][\A h \in Handles :
         (refusals[h] = MaxRefusals /\ pc[h] \in {"loop", "merge"}
            /\ pc'[h] # pc[h])
         => (pc'[h] = "ret" /\ ret'[h].err = "toomany")]_vars

\* C10: committing a tree identical to the tree of the parent commit creates
\* no commit: the call returns the parent commit.
C10_EmptyCommitNoop ==
    \A h \in Handles :
        (Returned(h) /\ caller[h] = "Commit" /\ cparent[h] # Nil
           /\ ctree[h] = commits[cparent[h]].tree)
        => ret[h].commit = cparent[h]

\* ------------------------------------------------------------------------
\* Properties of the stateless database
\* ------------------------------------------------------------------------

\* C2: two clients of one reference ran the committing writes set(foo, "A")
\* and set(bar, "B"), each one query, one set and one commit, interleaved in
\* any way; once both have returned, the tip holds foo = "A" and bar = "B".
C2_BothWritesVisible ==
    (/\ \A h \in Handles : pc[h] = "idle" /\ result[h] = "ok"
     /\ wrote["h1"] = {"foo"}
     /\ wrote["h2"] = {"bar"}
     /\ Len(commits) = 3)
    => (commits[ref].tree["foo"] = "A" /\ commits[ref].tree["bar"] = "B")

\* C5: a DB.Set(k, v) on a database whose reference exists returns without
\* error and leaves the reference on a commit whose tree has k = v.
C5_SetIsCommitted ==
    [][\A h \in Handles, k \in Keys :
         (DBSet(h, k, ValOf(h)) /\ ref # Nil)
         => (result'[h] = "ok" /\ ref' # Nil /\ commits'[ref'].tree[k] = ValOf(h))]_vars

\* C6: a query never moves the reference, and a Get on the database returns
\* the value committed under the key.
C6_QueryLeavesRef ==
    [][\A h \in Handles :
         /\ (OpQuery(h) \/ RunReturn(h)) => UNCHANGED repoVars
         /\ \A k \in Keys :
               (DBGet(h, k) /\ ref # Nil /\ commits[ref].tree[k] # NoVal)
               => (UNCHANGED repoVars /\ result'[h] = commits[ref].tree[k])]_vars

\* C8: a write whose first update of the reference was refused and whose
\* merge, free of unresolved conflicts, was prepared against the tip that
\* is still current, moves the reference and returns without error.
C8_MergedWriteSucceeds ==
    [][\A h \in Handles :
         (/\ pc[h] = "merge" /\ pc'[h] # "merge"
          /\ caller[h] = "setTree"
          /\ ref = tip[h]
          /\ Unresolved(BaseTree(tmpCommit[h], tip[h]), tmpCommit[h].tree,
                        commits[tip[h]].tree) = {})
         => (pc'[h] = "ret" /\ ret'[h].err = "none" /\ ref' = ret'[h].commit)]_vars

\* ------------------------------------------------------------------------
\* Properties of the tree algebra
\* ------------------------------------------------------------------------
IsPrefix(s, t) == Len(s) <= Len(t) /\ SubSeq(t, 1, Len(s)) = s
StrictPrefixes(segs) == {SubSeq(segs, 1, i) : i \in 1..(Len(segs) - 1)}

\* the paths the properties look at: every path of one to three names
ProbePaths ==
    {<<n>> : n \in Names}
    \cup {<<n, m>> : n \in Names, m \in Names}
    \cup {<<n, m, o>> : n \in Names, m \in Names, o \in Names}

\* the last call named the entry at segs
LastKey == TreePath(last.key)

\* no strict prefix of the key is a blob in the tree
NoBlobPrefix(tree, segs) ==
    tree = NoTree \/ \A p \in StrictPrefixes(segs) : ~IsBlob(EntryByPath(tree, p))

\* C11: a set(k, v) on a tree in which no strict prefix of k is a blob
\* succeeds, every strict prefix of k is a sub-tree afterwards, and get(k)
\* on the new tree returns v, the empty value included.
C11_SetGetRoundTrip ==
    (last.op = "set" /\ LastKey # <<>> /\ NoBlobPrefix(last.in, LastKey))
    => /\ last.err = "none"
       /\ \A p \in StrictPrefixes(LastKey) : IsSub(EntryByPath(dbtree, p))
       /\ TreeGetPath(dbtree, LastKey) = [err |-> "none", val |-> last.value.blob]

\* the empty value was set under a nested key whose parent did not exist
C11_Witness ==
    /\ last.op = "set"
    /\ last.err = "none"
    /\ Len(LastKey) = 2
    /\ last.value = Blob("")
    /\ last.in # NoTree
    /\ IsAbsent(EntryByPath(last.in, <<LastKey[1]>>))
    /\ TreeGetPath(dbtree, LastKey).val = ""
    /\ TreeGetPath(dbtree, LastKey).err = "none"

Failed(r) == r.err # "none"

C13_DeleteUndoesSet ==
    [][\A k \in TreeKeys :
         (/\ last.op = "set" /\ last.err = "none" /\ last.key = k
          /\ last.in # NoTree
          /\ IsAbsent(EntryByPath(last.in, TreePath(k)))
          /\ NoBlobPrefix(last.in, TreePath(k))
          /\ DeleteAt(0, k))
         => (last'.err = "none" /\ dbtree' = last.in)]_vars

\* C14: a delete(k) gives the whole input tree with the entry at k removed:
\* no entry at k, and every path that is not k, not a prefix of k and not
\* below k has the entry it had.
C14_DeleteFrame ==
    (last.op = "delete" /\ last.h = 0 /\ last.err = "none")
    => /\ IsAbsent(EntryByPath(dbtree, LastKey))
       /\ \A p \in ProbePaths :
             (~IsPrefix(p, LastKey) /\ ~IsPrefix(LastKey, p))
             => EntryByPath(dbtree, p) = EntryByPath(last.in, p)

\* the union of a tree and an overlay: a name on one side only is kept, a
\* name that is a sub-tree on both sides is the union of the two, in every
\* other clash the entry of the overlay stands
RECURSIVE UnionTree(_, _)
UnionTree(old, overlay) ==
    [n \in Names |->
        IF IsAbsent(overlay[n]) THEN old[n]
        ELSE IF IsSub(overlay[n]) /\ IsSub(old[n])
        THEN Sub(UnionTree(old[n].tree, overlay[n].tree))
        ELSE overlay[n]]

\* the last call was an add of a tree at the root
LastRootAdd == last.op = "add" /\ LastKey = <<>>

\* C15 as stated: an add with key "/" returns the value unchanged as the
\* new root, whatever the base tree and whatever merge.
C15_RootAddReplaces ==
    (LastRootAdd /\ last.err = "none") => dbtree = last.value.tree

\* C15 amended: an add with key "/" ends without error (or the handle it
\* returns is the released handle of the base); it returns the value
\* unchanged when merge is false or when there is no base tree, and with
\* merge = true on a base tree it returns the union of the base and the
\* value.
C15_RootAddReplacesOrMerges ==
    LastRootAdd
    => /\ last.err \in {"none", "crash"}
       /\ last.err = "crash"
            => (last.merge /\ last.in # NoTree /\ last.value.tree = emptyGitTree)
       /\ last.err = "none"
            => dbtree = IF last.merge /\ last.in # NoTree
                        THEN UnionTree(last.in, last.value.tree)
                        ELSE last.value.tree

\* an add at the root with merge = true on a base with entries kept an
\* entry of the base and took one from the value
C15_Witness ==
    /\ LastRootAdd
    /\ last.err = "none"
    /\ last.merge
    /\ last.in # NoTree
    /\ dbtree # last.value.tree
    /\ dbtree # last.in
    /\ \E n \in Names : ~IsAbsent(last.in[n]) /\ dbtree[n] = last.in[n]

\* the sub-tree at the key of the last call, the empty tree when there is
\* no sub-tree at the key
SubTreeAt(tree, segs) ==
    IF TreeScope(tree, segs) = NoTree THEN emptyGitTree ELSE TreeScope(tree, segs)

\* C16: an add(key, overlay, merge = true), the key "/" included, succeeds
\* and leaves at key the union of the sub-tree that was at key and the
\* overlay.
C16_MergeIsUnion ==
    (last.op = "add" /\ last.merge)
    => /\ last.err = "none"
       /\ TreeScope(dbtree, LastKey)
            = UnionTree(SubTreeAt(last.in, LastKey), last.value.tree)

\* C17: an add(key, overlay, merge = false) leaves the overlay at key, and
\* every path that is not key, not a prefix of key and not below key has
\* the entry it had.
C17_ShadowFrame ==
    (last.op = "add" /\ ~last.merge /\ last.err = "none" /\ last.in # NoTree
        /\ LastKey # <<>>)
    => /\ TreeScope(dbtree, LastKey) = last.value.tree
       /\ \A p \in ProbePaths :
             (~IsPrefix(p, LastKey) /\ ~IsPrefix(LastKey, p))
             => EntryByPath(dbtree, p) = EntryByPath(last.in, p)

\* ------------------------------------------------------------------------
\* Properties of the scoped handles
\* ------------------------------------------------------------------------

\* the tree t as the only content of an otherwise empty tree, at segs
RECURSIVE Graft(_, _)
Graft(segs, t) ==
    IF segs = <<>> THEN t
    ELSE [emptyGitTree EXCEPT ![Head(segs)] = Sub(Graft(Tail(segs), t))]

\* the tree without every entry that is not at or below segs
Restrict(tree, segs) ==
    IF tree = NoTree THEN NoTree
    ELSE IF TreeScope(tree, segs) = NoTree THEN emptyGitTree
    ELSE Graft(segs, TreeScope(tree, segs))

\* the last call was made through a handle that db.Scope(p) returned
LastScoped == last.op # "none" /\ last.h > 0 /\ views[last.h].parent = 0
LastPrefix == TreePath(views[last.h].scope)

\* C18: a call through db.Scope(p) reads and creates nothing outside p: a
\* Get returns what it returns when every entry outside p is taken away, a
\* List likewise, and a Set or a Mkdir leaves every path that is not p, not
\* a prefix of p and not below p as it was.
C18_ScopeConfined ==
    LastScoped
    => /\ last.op = "get"
            => [err |-> last.err, val |-> last.res.val]
                 = TreeGetPath(Restrict(dbtree, LastPrefix),
                               TreePath(RootKey(last.h, last.key)))
       /\ last.op = "list"
            => [err |-> last.err, names |-> last.res.names]
                 = TreeListPath(Restrict(views[last.h].tree, LastPrefix),
                                TreePath(OwnKey(last.h, last.key)))
       /\ (last.op \in {"set", "mkdir"} /\ last.err = "none" /\ last.in # NoTree)
            => \A q \in ProbePaths :
                  (~IsPrefix(q, LastPrefix) /\ ~IsPrefix(LastPrefix, q))
                  => EntryByPath(dbtree, q) = EntryByPath(last.in, q)

\* the key of the last call, joined to the scope of its handle
LastJoined == TreePath(Join(views[last.h].scope, last.key))

\* C19: s = db.Scope(p) is a lens: s.Get(k) returns what db.Get(join(p, k))
\* returns on the tree db holds now, and after a Set, a Mkdir or a Delete
\* through s that returned without error db has the value, a sub-tree, or
\* no entry at join(p, k).
C19_ScopeIsLens ==
    LastScoped
    => /\ last.op = "get"
            => [err |-> last.err, val |-> last.res.val]
                 = TreeGetPath(dbtree, LastJoined)
       /\ (last.op = "set" /\ last.err = "none")
            => TreeGetPath(dbtree, LastJoined) = [err |-> "none", val |-> last.value.blob]
       /\ (last.op = "mkdir" /\ last.err = "none")
            => (LastJoined = <<>> \/ IsSub(EntryByPath(dbtree, LastJoined)))
       /\ (last.op = "delete" /\ last.err = "none")
            => IsAbsent(EntryByPath(dbtree, LastJoined))

\* the scope of a handle counted from the root: the scopes of its chain of
\* parents, joined
AbsScope(h) == RootKey(h, Path(FALSE, <<>>))

\* C20: a handle made by a chain of Scope calls gives what a handle made by
\* one Scope call with the joined prefix gives on the same tree, and a
\* handle whose joined prefix is the root gives what db itself gives: the
\* List or the Tree that was just made returned the entries, or the tree, at
\* the joined prefix (joined with the key), and with a root prefix those at
\* the key alone.
C20_ScopeComposes ==
    (last.op \in {"list", "tree"} /\ last.h \in HandleIds)
    => LET h == last.h
           direct == Join(AbsScope(h), last.key)
           plain == Join(HScope(0), last.key)
       IN  /\ last.op = "list"
                => /\ [err |-> last.err, names |-> last.res.names]
                        = TreeListPath(HTree(h), TreePath(direct))
                   /\ TreePath(AbsScope(h)) = <<>>
                        => [err |-> last.err, names |-> last.res.names]
                             = TreeListPath(HTree(h), TreePath(plain))
           /\ (last.op = "tree" /\ last.err = "none")
                => last.res.tree = TreeScope(HTree(h), TreePath(AbsScope(h)))

\* ------------------------------------------------------------------------
\* Properties of concurrent calls on one handle
\* ------------------------------------------------------------------------

\* C21: calls made concurrently through one handle are serialized: when two
\* goroutines have each finished a Set, on two different top-level keys, the
\* tree of the handle has an entry at both keys.
C21_ConcurrentSetsBothApply ==
    \A g1, g2 \in Goroutines :
        (/\ g1 # g2
         /\ calls[g1].op = "set" /\ calls[g1].done /\ calls[g1].err = "none"
         /\ calls[g2].op = "set" /\ calls[g2].done /\ calls[g2].err = "none"
         /\ calls[g1].key # calls[g2].key)
        => /\ ~IsAbsent(EntryByPath(dbtree, TreePath(calls[g1].key)))
           /\ ~IsAbsent(EntryByPath(dbtree, TreePath(calls[g2].key)))

\* ------------------------------------------------------------------------
\* Properties of Update and Pull on the stateful handle
\* ------------------------------------------------------------------------

\* C22: Update reloads the handle from the reference: when the reference
\* exists and its tip is not the commit the handle holds, the tree of the
\* handle becomes the tree of the tip (what was not committed is gone);
\* when the tip is the commit the handle holds, or the reference does not
\* exist, the tree of the handle stays as it is.  No other handle changes.
C22_UpdateReloads ==
    [][\A h \in Handles :
          Update(h)
          => /\ htree'[h] = IF ref # Nil /\ hcommit[h] # ref
                            THEN commits[ref].tree ELSE htree[h]
             /\ \A o \in Handles \ {h} : htree'[o] = htree[o]]_vars

\* a handle that has written holds the commit of the reference and its
\* tree, in which a key has the value only the other handle writes
C22_Witness ==
    \E h \in Handles :
        /\ pc[h] = "idle"
        /\ touched[h] # {}
        /\ ref # Nil
        /\ hcommit[h] = ref
        /\ htree[h] = commits[ref].tree
        /\ \E k \in Keys, o \in Handles \ {h} : htree[h][k] = ValOf(o)

C24_FirstSetCreatesRef ==
    [][\A h \in Handles :
          /\ (OpQuery(h) /\ ref = Nil) => val'[h] = emptyTree
          /\ (OpCommit(h) /\ ref = Nil /\ wrote[h] # {}) => pc'[h] = "loop"]_vars

\* ------------------------------------------------------------------------
\* Properties of the reads
\* ------------------------------------------------------------------------

\* the entry the key of the last call resolves to in the tree it was made on
LastEntry ==
    IF last.in = NoTree THEN Absent ELSE EntryByPath(last.in, LastKey)

\* what get must return: the value when the key resolves to a blob, an
\* error when it resolves to nothing (the key or a component before it is
\* absent, or it is the root) or to a sub-tree
GetAsResolved ==
    last.op = "get"
    => /\ IsBlob(LastEntry) => (last.err = "none" /\ last.res.val = LastEntry.blob)
       /\ ~IsBlob(LastEntry) => last.err # "none"

C26_RunStopsAtFailure ==
    [][\A h \in Handles : \A k \in Keys :
          (OpDelete(h, k) /\ ~treeDelOk(val[h], k))
          => /\ pc'[h] = "idle"
             /\ val'[h] = NoTree
             /\ result'[h] = "error"
             /\ UNCHANGED <<commits, ref>>]_vars

\* a run on an existing reference has failed after another run has
\* committed a write
C26_Witness ==
    \E h \in Handles :
        /\ pc[h] = "idle"
        /\ result[h] = "error"
        /\ ref # Nil
        /\ \E k \in Keys : commits[ref].tree[k] # NoVal

\* C27: assert_eq, assert_not_exist, dump and walk hand on their input:
\* when the step succeeds its output is its input; the step observes the
\* tree the steps before it have produced (dump writes, and the handler of
\* walk is given, the entries of that tree); assert_eq(k, v) fails exactly
\* when get(k) on its input is not v, assert_not_exist(k) exactly when
\* get(k) on its input succeeds.
C27_PassThrough ==
    LET got == TreeGetPath(last.in, LastKey)
        seen == IF last.in = NoTree THEN <<>> ELSE TreeWalkEntries(last.in)
    IN  /\ (last.op \in {"asserteq", "assertnotexist", "dump", "walk"}
               /\ last.err = "none")
           => (last.res.tree = last.in /\ dbtree = last.in)
        /\ last.op = "asserteq"
           => (last.err # "none"
                 <=> ~(got.err = "none" /\ got.val = last.value.blob))
        /\ last.op = "assertnotexist"
           => (last.err # "none" <=> got.err = "none")
        /\ last.op \in {"dump", "walk"} => last.res.out = seen

\* C28: the run of concat(p1, p2), or of p1 extended with
\* PushBackPipeline(p2), gives what the steps of p2 give on the output of
\* p1; putting the two together changes the step sequence of neither p1 nor
\* p2 (for PushBackPipeline: not that of p2), and each still runs to its
\* result of before.
C28_ConcatIsSequence ==
    LET c == pipes.cat
    IN  /\ c.kind = "concat" =>
             /\ RunIn(c.after, c.res)
                  = FoldSteps(RunIn(c.before, c.p1), ChainIn(c.before, c.p2))
             /\ \A p \in {c.p1, c.p2} :
                    /\ ChainIn(c.after, p) = ChainIn(c.before, p)
                    /\ RunIn(c.after, p) = RunIn(c.before, p)
        /\ c.kind = "pushback" =>
             /\ ListRun(c.after[c.res])
                  = FoldSteps(ListRun(c.before[c.p1]), c.before[c.p2])
             /\ c.p2 # c.p1 =>
                    /\ c.after[c.p2] = c.before[c.p2]
                    /\ ListRun(c.after[c.p2]) = ListRun(c.before[c.p2])

LastRootKey == TreePath(RootKey(last.h, last.key))

\* C30: no blob has entries below it.  A set(k, v) or an add(k, ...) on a
\* tree in which a strict prefix of k names a blob succeeds and leaves a
\* sub-tree at every strict prefix of k, with the blob v (the added tree) at
\* k; a set(k, v) on a tree in which k names a sub-tree succeeds and leaves
\* the blob v at k.
C30_BlobsAreLeaves ==
    /\ (last.op \in {"set", "add"} /\ LastRootKey # <<>>
          /\ ~NoBlobPrefix(last.in, LastRootKey))
       => /\ last.err = "none"
          /\ \A p \in StrictPrefixes(LastRootKey) : IsSub(EntryByPath(dbtree, p))
          /\ IF last.op = "set" THEN EntryByPath(dbtree, LastRootKey) = last.value
             ELSE IsSub(EntryByPath(dbtree, LastRootKey))
    /\ (last.op = "set" /\ last.in # NoTree
          /\ IsSub(EntryByPath(last.in, LastRootKey)))
       => /\ last.err = "none"
          /\ EntryByPath(dbtree, LastRootKey) = last.value

\* an add under a blob has put a sub-tree in the place of the blob
C30_Witness ==
    /\ last.op = "add"
    /\ last.err = "none"
    /\ Len(LastRootKey) = 2
    /\ last.in # NoTree
    /\ IsBlob(EntryByPath(last.in, <<LastRootKey[1]>>))
    /\ IsSub(EntryByPath(dbtree, <<LastRootKey[1]>>))
    /\ EntryByPath(dbtree, LastRootKey) = last.value
    /\ last.value # Sub(emptyGitTree)

\* the entries at the paths that are neither a prefix of segs nor below it
\* are the same in both trees
SameBeside(t1, t2, segs) ==
    \A p \in ProbePaths :
        (~IsPrefix(p, segs) /\ ~IsPrefix(segs, p))
        => EntryByPath(t1, p) = EntryByPath(t2, p)

\* C31: mkdir(k) adds an empty sub-tree at k only if nothing is at k: with
\* an entry at k (the root is always there) the call succeeds and the tree
\* is the input tree; with nothing at k the call succeeds, k is an empty
\* sub-tree afterwards and nothing beside k has changed.
C31_MkdirOnlyIfAbsent ==
    (last.op = "mkdir" /\ last.in # NoTree)
    => IF LastRootKey = <<>> \/ ~IsAbsent(EntryByPath(last.in, LastRootKey))
       THEN last.err = "none" /\ dbtree = last.in
       ELSE NoBlobPrefix(last.in, LastRootKey)
            => /\ last.err = "none"
               /\ EntryByPath(dbtree, LastRootKey) = Sub(emptyGitTree)
               /\ SameBeside(dbtree, last.in, LastRootKey)

\* C32: every call takes its key in canonical form: a set, get, list,
\* mkdir or delete on a key gives what it gives on the canonical form of
\* the key; the canonical form of a canonical form is itself; the
\* spellings of a/b name the entry b of the sub-tree a.
C32_KeysAreCanonicalised ==
    last.op \in {"set", "get", "list", "mkdir", "delete"}
    => /\ last.res = KeyResult(last.op, last.in,
                               KeySegs(RootKeyStr(TreePathStr(last.key))),
                               last.value)
       /\ TreePathStr(TreePathStr(last.key)) = TreePathStr(last.key)
       /\ last.key \in Spellings
            => /\ TreePathStr(last.key) = <<"a", "/", "b">>
               /\ KeySegs(RootKeyStr(last.key)) = <<"a", "b">>

\* a set on a spelling of a/b with slashes in front has written a/b
C32_Witness ==
    /\ last.op = "set"
    /\ last.err = "none"
    /\ last.key \in Spellings
    /\ Head(last.key) = "/"
    /\ last.key # TreePathStr(last.key)
    /\ EntryByPath(dbtree, <<"a", "b">>) = last.value

\* the paths with the same canonical form have the same annotation key, the
\* paths with another canonical form have another key
AnnotationInjective(p) ==
    \A q \in AnnPaths :
        (TreePathStr(q) = TreePathStr(p)) <=> (MkAnnotation(q) = MkAnnotation(p))

\* C33: for every path p, the root included, ParseAnnotation of
\* MkAnnotation(p) succeeds and gives the canonical form of p; paths with
\* distinct canonical forms have distinct annotation keys.
C33_AnnotationRoundTrip ==
    last.op = "parseannotation"
    => /\ last.res = [err |-> "none", target |-> TreePathStr(last.key)]
       /\ AnnotationInjective(last.key)

\* the first component of the path is ".."
StartsWithDotDot(s) == Head(SplitAcc(s, <<>>, <<>>)) = <<".", ".">>

\* C33 amended: ParseAnnotation of MkAnnotation(p) gives the canonical form
\* of p when that is not the root and does not start with a ".."
\* component; for the root it gives the empty path, not "/"; for a
\* canonical form that starts with ".." it fails.  Paths with distinct
\* canonical forms have distinct annotation keys.
C33_AnnotationRoundTripBelowRoot ==
    last.op = "parseannotation"
    => /\ AnnotationInjective(last.key)
       /\ last.res =
            IF TreePathStr(last.key) = <<"/">>
            THEN [err |-> "none", target |-> <<>>]
            ELSE IF StartsWithDotDot(TreePathStr(last.key))
            THEN [err |-> "parseint", target |-> <<>>]
            ELSE [err |-> "none", target |-> TreePathStr(last.key)]

\* the annotation of a path of two components, written with a slash in
\* front, was parsed back to the path without the slash
C33_Witness ==
    /\ last.op = "parseannotation"
    /\ last.key = <<"/", "a", "/", "b">>
    /\ last.value = <<"2", "/", "a", "/", "b">>
    /\ last.res = [err |-> "none", target |-> <<"a", "/", "b">>]

\* C34: for every stream of regular files with names of their own, nested
\* names and names with a slash in front included, SetTar and then GetTar
\* succeed and the stream written has the entries of the stream read: the
\* same headers with the same contents.
C34_TarRoundTrip ==
    /\ last.op = "settar" => last.err = "none"
    /\ last.op = "gettar"
       => /\ last.err = "none"
          /\ {last.res.out[i] : i \in DOMAIN last.res.out}
               = {last.key[i] : i \in DOMAIN last.key}

\* ------------------------------------------------------------------------
\* Properties of the conflict loop and of the parsing of annotations
\* ------------------------------------------------------------------------

\* C35: every conflict of the three-way merge is resolved for the caller's
\* side, also when a side deleted the path: the merged tree is always
\* written, so no call of commitToRef returns the error of WriteTreeTo.
C35_ConflictsResolvedForOurs ==
    \A h \in Handles : pc[h] = "ret" => ret[h].err # "writetree"

\* the segments of a key: its components between slashes that are not empty
KeySegments(s) ==
    LET notEmpty(c) == c # <<>>
    IN  SelectSeq(SplitAcc(s, <<>>, <<>>), notEmpty)

\* the key starts with an integer d and d segments follow it
DepthMatches(s) ==
    /\ KeySegments(s) # <<>>
    /\ ParseLevel(Head(KeySegments(s))) # -1
    /\ Len(KeySegments(s)) - 1 = ParseLevel(Head(KeySegments(s)))

\* C36: ParseAnnotation(s) returns an error for every s whose first segment
\* is no integer and for every s whose integer d is not followed by exactly
\* d segments ("0/a", "1/a/a", "2/a"); it returns a path only when the
\* depth matches.
C36_ParseRejectsWrongDepth ==
    last.op = "parsekey" => (last.res.err = "none" => DepthMatches(last.key))

\* ------------------------------------------------------------------------
\* Properties of the runs of the stateless database
\* ------------------------------------------------------------------------

\* C37: in every run of a transaction the commit handed to commitToRef as
\* the parent is the commit whose tree the run read as its input, also
\* when another writer has moved the reference between the read and the
\* commit.
C37_ParentIsReadCommit ==
    \A h \in Handles :
        (pc[h] \in {"loop", "merge", "ret"} /\ caller[h] = "setTree")
        => cparent[h] = readHead[h]

\* ------------------------------------------------------------------------
\* Properties of DB.Commit, DB.AddDB and the end of commitToRef
\* ------------------------------------------------------------------------

\* C38: after every successful Commit on a handle, one completed through
\* the merge included, the tree of the handle is the tree of the commit the
\* handle has cached (the commit the call has put on the reference), so
\* what the merge took from the other writer is in the handle.
C38_TreeIsCommittedTree ==
    [][\A h \in Handles :
         (pc[h] = "ret" /\ caller[h] = "Commit" /\ ret[h].err = "none"
            /\ pc'[h] = "idle")
         => htree'[h] = commits'[hcommit'[h]].tree]_vars

\* the goroutine is in a call of AddDB
InAddDB(g) == rw.at[g].pc # "idle"

\* the next step of the call the goroutine is in can be taken
CanGoOn(g) ==
    CASE rw.at[g].pc = "add" -> CanLock(rw.at[g].dst)
      [] rw.at[g].pc = "parent" -> CanLock(ParentOf(rw.at[g].dst))
      [] OTHER -> TRUE

\* C39: every call of AddDB returns, it never waits for ever on the locks of
\* the handles (src the destination itself, the destination a view of src,
\* two goroutines adding a to b and b to a): while calls are under way one
\* of them can take its next step.
C39_AddDBReturns ==
    (\E g \in Goroutines : InAddDB(g))
    => \E g \in Goroutines : InAddDB(g) /\ CanGoOn(g)

\* C40: every call of commitToRef terminates, with a commit or an error,
\* when the reference is moved only finitely often during the call: once
\* the reference has stopped moving the merge commit with the parents
\* [parent of the caller, tip] is accepted and the loop is left.
C40_CommitToRefTerminates ==
    \A h \in Handles : (pc[h] \in {"loop", "merge"}) ~> (pc[h] = "ret")
====
